---- MODULE Spec2Model ----
(***************************************************************************)
(* Opportunity detection of the nodo prediction-market scanner:            *)
(*   - intra-platform arbitrage  (bot/arbitrage_scanner.py and the         *)
(*     nodo-x402 service of the same name),                                *)
(*   - event matching            (bot/event_matcher.py),                   *)
(*   - cross-platform arbitrage  (bot/cross_platform_scanner.py),          *)
(*   - logical mispricing        (bot/delta_scanner.py and the nodo-x402   *)
(*     service of the same name),                                          *)
(*   - the Polymarket normalizers, the payment middleware and the model    *)
(*     consensus of nodo-x402,                                             *)
(*   - the yield scanner of the Telegram bot and its cache under           *)
(*     concurrent scans          (bot/telegram_bot.py).                    *)
(*                                                                         *)
(* Numbers.  A price is a whole number of cents (0.40 is 40, 1.0 is ONE);  *)
(* a fee rate is a whole number of hundredths (0.02 is 2).  Every quotient *)
(* the code computes is kept exact as a fraction <<n, d>> with d > 0, so   *)
(* the model is the code's arithmetic over the rationals: the rounding of  *)
(* IEEE doubles is not modelled.                                           *)
(***************************************************************************)
EXTENDS Integers, Sequences, FiniteSets, TLC

VARIABLES
    MIN_PROFIT_THRESHOLD, \* config.MIN_PROFIT_THRESHOLD, a fraction, in percent
    called,               \* the operation whose call the state records
    markets,              \* the list client.get_markets() hands to scan
    market,               \* the argument of the last _analyze_market call
    analysis,             \* what that call returned (or raised)
    opportunities,        \* what ArbitrageScanner.scan returned (or raised)
    returns,              \* what calculate_returns returned
    x402_analysis,        \* nodo-x402 ArbitrageScanner._analyze_market result
    x402_opportunities,   \* nodo-x402 ArbitrageScanner.scan result
    event,                \* the MatchedEvent given to _find_arbitrage
    arbs,                 \* what _find_arbitrage returned
    fetched,              \* platform -> list its get_markets() returned
    profitable,           \* what CrossPlatformScanner.scan returned
    given_markets,        \* the list given to EventMatcher.match_markets
    similarity_threshold, \* EventMatcher.similarity_threshold, a fraction
    events_matched,       \* what match_markets returned
    compared,             \* the two markets given to _calculate_similarity
    similarity,           \* the score _calculate_similarity returned
    raw_markets,          \* the records the markets API returned to DeltaScanner.scan
    delta_group,          \* the topic and markets given to _find_inconsistencies
    delta_found,          \* what _find_inconsistencies returned (or raised)
    delta_opportunities,  \* what DeltaScanner.scan returned (or raised)
    data,                 \* the raw Gamma API record given to a _parse_market
    normalized,           \* what that _parse_market returned (or raised)
    rerun,                \* what the second run of the same detection on the same inputs returned
    request,              \* the request given to X402Middleware.dispatch
    solana,               \* whether app.state has a Solana client, and what its verification returns
    response,             \* what dispatch returned (or raised)
    model_results,        \* the parsed model results given to _build_consensus
    consensus,            \* what _build_consensus returned
    dissent,              \* what _find_dissent returned for the consensus action
    scans,                \* the MarketScanner.scan calls of the Telegram bot, by task
    cached_opportunities  \* telegram_bot.cached_opportunities, the module-level cache

vars == <<MIN_PROFIT_THRESHOLD, called, markets, market, analysis, opportunities,
          returns, x402_analysis, x402_opportunities, event, arbs, fetched,
          profitable, given_markets, similarity_threshold, events_matched,
          compared, similarity,
          raw_markets, delta_group, delta_found, delta_opportunities,
          data, normalized,
          rerun,
          request, solana, response,
          model_results, consensus, dissent,
          scans, cached_opportunities>>

intraVars == <<markets, market, analysis, opportunities, returns,
               x402_analysis, x402_opportunities>>
crossVars == <<event, arbs, fetched, profitable>>
matchVars == <<given_markets, similarity_threshold, events_matched, compared,
               similarity>>

deltaVars == <<raw_markets, delta_group, delta_found, delta_opportunities>>

parseVars == <<data, normalized>>

rerunVars == <<rerun>>

payVars == <<request, solana, response>>

consensusVars == <<model_results, consensus, dissent>>

scanVars == <<scans, cached_opportunities>>

\* the variables of the components other than the two arbitrage scanners
extVars == <<matchVars, deltaVars, parseVars, rerunVars, payVars, consensusVars, scanVars>>

----------------------------------------------------------------------------
(* Bounds of the model *)

MaxOutcomes == 3        \* longest outcome list of a generated market
MaxFeed == 2            \* longest multi-market list handed to a scan
MaxEventPlatforms == 2  \* most platforms in a directly constructed event
MaxPerPlatform == 2     \* most markets one platform returns to the pipeline
MaxGroup == 3           \* most threshold markets of one topic in a delta scan
MaxModels == 3          \* most model results given to the consensus
MaxScans == 2           \* most concurrent scans of the Telegram bot

(* Program constants *)

ONE == 100              \* the float 1.0, in cents
TRADING_FEE == 2        \* config.TRADING_FEE = 0.02
X402_TRADING_FEE == 1   \* nodo-x402 ArbitrageScanner.TRADING_FEE = 0.01
X402_MIN_VOLUME == 1000 \* nodo-x402 volume filter
DEFAULT_FEE == 2        \* fee assumed for a platform the scanner does not hold

----------------------------------------------------------------------------
(* Exact arithmetic on fractions <<n, d>>, d > 0 *)

Frac(n, d) == <<n, d>>
FLt(a, b) == a[1] * b[2] < b[1] * a[2]
FLe(a, b) == a[1] * b[2] <= b[1] * a[2]
FEq(a, b) == a[1] * b[2] = b[1] * a[2]
FGt(a, b) == FLt(b, a)
FGe(a, b) == FLe(b, a)
FAdd(a, b) == <<a[1] * b[2] + b[1] * a[2], a[2] * b[2]>>
FSub(a, b) == <<a[1] * b[2] - b[1] * a[2], a[2] * b[2]>>
FMin(a, b) == IF FLe(a, b) THEN a ELSE b

\* floor of n / d for d > 0 (\div of TLA+ rounds toward minus infinity)
Floor(n, d) == n \div d

\* round(x, 2) of Python, as a whole number of hundredths: nearest, ties to even
Round2(f) ==
    LET n == f[1] * 100
        d == f[2]
        q == Floor(n, d)
        r == n - q * d
    IN  IF 2 * r < d THEN q
        ELSE IF 2 * r > d THEN q + 1
        ELSE IF q % 2 = 0 THEN q ELSE q + 1

RECURSIVE SumSeq(_)
SumSeq(s) == IF s = <<>> THEN 0 ELSE s[1] + SumSeq(Tail(s))

SeqsOfLen(S, lo, hi) == UNION {[1..k -> S] : k \in lo..hi}

Range(s) == {s[i] : i \in DOMAIN s}

\* list.sort(key=lambda x: x.net_profit_pct, reverse=True): stable, descending
RECURSIVE InsertDesc(_, _)
InsertDesc(sorted, x) ==
    IF sorted = <<>> THEN <<x>>
    ELSE IF FGe(sorted[1].net_profit_pct, x.net_profit_pct)
         THEN <<sorted[1]>> \o InsertDesc(Tail(sorted), x)
         ELSE <<x>> \o sorted

RECURSIVE SortDescFrom(_, _)
SortDescFrom(sorted, rest) ==
    IF rest = <<>> THEN sorted
    ELSE SortDescFrom(InsertDesc(sorted, rest[1]), Tail(rest))

SortByNetProfitDesc(s) == SortDescFrom(<<>>, s)

----------------------------------------------------------------------------
(* Results of a call *)

NoneResult == [kind |-> "none"]
Raised(e) == [kind |-> "raise", error |-> e]
NotCalled == [kind |-> "idle"]
Returned(list) == [kind |-> "list", list |-> list]

----------------------------------------------------------------------------
(* bot/arbitrage_scanner.py *)

\* ArbitrageOpportunity.is_profitable
IsProfitable(opp, threshold) == FGt(opp.net_profit_pct, threshold)

\* the names under which _analyze_market stores allocations (dict keys)
AllocationOf(m, total_cost) ==
    [o \in Range(m.outcomes) |->
        LET i == CHOOSE j \in DOMAIN m.outcomes :
                    /\ m.outcomes[j] = o
                    /\ \A k \in DOMAIN m.outcomes : m.outcomes[k] = o => k <= j
        IN  Frac(m.outcome_prices[i], total_cost)]

\* _analyze_market with the fee charged on the stake instead of the payout
\* (a faulty variant, to show that C5 detects it)
AnalyzeMarketFeeOnStake(m) ==
    IF m.closed \/ ~m.active THEN NoneResult
    ELSE IF Len(m.outcome_prices) < 2 THEN NoneResult
    ELSE LET total_cost == SumSeq(m.outcome_prices) IN
         IF total_cost >= ONE THEN NoneResult
         ELSE IF total_cost = 0 THEN Raised("ZeroDivisionError")
         ELSE IF Len(m.outcomes) > Len(m.outcome_prices) THEN Raised("IndexError")
         ELSE [kind |-> "opp",
               market |-> m,
               type |-> IF Len(m.outcomes) = 2 THEN "binary" ELSE "multi_outcome",
               total_cost |-> total_cost,
               gross_profit_pct |-> Frac((ONE - total_cost) * 100, total_cost),
               net_profit_pct |->
                   Frac((ONE - total_cost) * 100 - TRADING_FEE * total_cost, total_cost),
               optimal_allocation |-> AllocationOf(m, total_cost)]

\* _analyze_market rejecting only total_cost > 1.0 (a faulty variant, for C1)
AnalyzeMarketAcceptsPar(m) ==
    IF m.closed \/ ~m.active THEN NoneResult
    ELSE IF Len(m.outcome_prices) < 2 THEN NoneResult
    ELSE LET total_cost == SumSeq(m.outcome_prices) IN
         IF total_cost > ONE THEN NoneResult
         ELSE IF total_cost = 0 THEN Raised("ZeroDivisionError")
         ELSE IF Len(m.outcomes) > Len(m.outcome_prices) THEN Raised("IndexError")
         ELSE [kind |-> "opp",
               market |-> m,
               type |-> IF Len(m.outcomes) = 2 THEN "binary" ELSE "multi_outcome",
               total_cost |-> total_cost,
               gross_profit_pct |-> Frac((ONE - total_cost) * 100, total_cost),
               net_profit_pct |->
                   Frac((ONE - total_cost) * 100 - TRADING_FEE * 100, total_cost),
               optimal_allocation |-> AllocationOf(m, total_cost)]

\* _analyze_market splitting the stake equally over the outcomes (a faulty
\* variant, for C4)
AnalyzeMarketEqualSplit(m) ==
    IF m.closed \/ ~m.active THEN NoneResult
    ELSE IF Len(m.outcome_prices) < 2 THEN NoneResult
    ELSE LET total_cost == SumSeq(m.outcome_prices) IN
         IF total_cost >= ONE THEN NoneResult
         ELSE IF total_cost = 0 THEN Raised("ZeroDivisionError")
         ELSE IF Len(m.outcomes) > Len(m.outcome_prices) THEN Raised("IndexError")
         ELSE [kind |-> "opp",
               market |-> m,
               type |-> IF Len(m.outcomes) = 2 THEN "binary" ELSE "multi_outcome",
               total_cost |-> total_cost,
               gross_profit_pct |-> Frac((ONE - total_cost) * 100, total_cost),
               net_profit_pct |->
                   Frac((ONE - total_cost) * 100 - TRADING_FEE * 100, total_cost),
               optimal_allocation |->
                   [o \in Range(m.outcomes) |-> Frac(1, Len(m.outcomes))]]

\* ArbitrageScanner._analyze_market
\*   gross_profit_pct = ((1.0 - total_cost) / total_cost) * 100
\*   fee_pct          = TRADING_FEE * (1.0 / total_cost) * 100
\*   with total_cost = T / ONE and TRADING_FEE = F / 100:
\*   gross = (ONE - T) * 100 / T,  fee_pct = F * 100 / T
AnalyzeMarket(m) ==
    IF m.closed \/ ~m.active THEN NoneResult
    ELSE IF Len(m.outcome_prices) < 2 THEN NoneResult
    ELSE LET total_cost == SumSeq(m.outcome_prices) IN
         IF total_cost >= ONE THEN NoneResult
         ELSE IF total_cost = 0 THEN Raised("ZeroDivisionError")
         ELSE IF Len(m.outcomes) > Len(m.outcome_prices) THEN Raised("IndexError")
         ELSE [kind |-> "opp",
               market |-> m,
               type |-> IF Len(m.outcomes) = 2 THEN "binary" ELSE "multi_outcome",
               total_cost |-> total_cost,
               gross_profit_pct |-> Frac((ONE - total_cost) * 100, total_cost),
               net_profit_pct |->
                   Frac((ONE - total_cost) * 100 - TRADING_FEE * 100, total_cost),
               optimal_allocation |-> AllocationOf(m, total_cost)]

\* ArbitrageOpportunity.calculate_returns; money in dollars, as fractions
CalculateReturns(opp, investment) ==
    LET T == opp.total_cost
        guaranteed_return == Frac(investment * ONE, T)
        gross_profit == FSub(guaranteed_return, Frac(investment, 1))
        fee == Frac(investment * TRADING_FEE, T)
        net_profit == FSub(gross_profit, fee)
    IN  [investment |-> investment,
         allocations |->
             [o \in DOMAIN opp.optimal_allocation |->
                 Frac(investment * opp.optimal_allocation[o][1],
                      opp.optimal_allocation[o][2])],
         guaranteed_return |-> guaranteed_return,
         gross_profit |-> gross_profit,
         fee |-> fee,
         net_profit |-> net_profit,
         roi_pct |-> IF investment > 0
                     THEN Frac(net_profit[1] * 100, net_profit[2] * investment)
                     ELSE Frac(0, 1)]

\* the loop of scan: the first market whose analysis raises ends the scan
RECURSIVE ScanLoop(_, _, _)
ScanLoop(ms, threshold, acc) ==
    IF ms = <<>> THEN Returned(acc)
    ELSE LET opp == AnalyzeMarket(ms[1]) IN
         IF opp.kind = "raise" THEN opp
         ELSE IF opp.kind = "opp" /\ IsProfitable(opp, threshold)
              THEN ScanLoop(Tail(ms), threshold, Append(acc, opp))
              ELSE ScanLoop(Tail(ms), threshold, acc)

\* ArbitrageScanner.scan
Scan(ms, threshold) ==
    IF ms = <<>> THEN Returned(<<>>)
    ELSE LET found == ScanLoop(ms, threshold, <<>>) IN
         IF found.kind = "raise" THEN found
         ELSE Returned(SortByNetProfitDesc(found.list))

----------------------------------------------------------------------------
(* nodo-x402/src/services/arbitrage_scanner.py *)

\* ArbitrageScanner._analyze_market of the paid API: binary markets only, a
\* volume floor, the fee charged on the stake, every exception swallowed
X402AnalyzeMarket(m) ==
    IF m.question = "" THEN NoneResult
    ELSE IF Len(m.outcome_prices) # 2 THEN NoneResult
    ELSE IF m.volume < X402_MIN_VOLUME THEN NoneResult
    ELSE LET total_cost == m.outcome_prices[1] + m.outcome_prices[2]
             \* net_profit = (1 - total_cost) - total_cost * fee, in 1/100 cent
             net_profit == (ONE - total_cost) * 100 - total_cost * X402_TRADING_FEE
         IN  IF total_cost >= ONE THEN NoneResult
             ELSE IF net_profit <= 0 THEN NoneResult
             ELSE IF total_cost = 0 THEN NoneResult   \* ZeroDivisionError, caught
             ELSE [kind |-> "opp",
                   market |-> m,
                   total_cost |-> total_cost,
                   guaranteed_profit |-> Frac(net_profit, 100),
                   net_profit_pct |-> Frac(Round2(Frac(net_profit, total_cost)), 100),
                   strategy |-> "BUY_BOTH"]

RECURSIVE X402ScanLoop(_, _)
X402ScanLoop(ms, acc) ==
    IF ms = <<>> THEN acc
    ELSE LET opp == X402AnalyzeMarket(ms[1]) IN
         IF opp.kind = "opp" THEN X402ScanLoop(Tail(ms), Append(acc, opp))
         ELSE X402ScanLoop(Tail(ms), acc)

\* ArbitrageScanner.scan of the paid API
X402Scan(ms) == Returned(SortByNetProfitDesc(X402ScanLoop(ms, <<>>)))

----------------------------------------------------------------------------
(* bot/platforms/*.py *)

POLYMARKET_FEE == 2     \* PolymarketPlatform.trading_fee = 0.02
KALSHI_FEE == 1         \* KalshiPlatform.trading_fee = 0.01
PREDICTIT_FEE == 10     \* PredictItPlatform.trading_fee = 0.10
AZURO_FEE == 5          \* AzuroPlatform.trading_fee = 0.05

\* CrossPlatformScanner.platforms, in the order _init_platforms fills the dict
PlatformOrder == <<"polymarket", "kalshi", "predictit", "azuro">>
Platforms == Range(PlatformOrder)

\* every platform charging the fallback fee (a faulty variant, for C8)
TradingFeeFlat(p) == DEFAULT_FEE

\* self.platforms.get(name).trading_fee, 0.02 for a platform not held
TradingFee(p) ==
    CASE p = "polymarket" -> POLYMARKET_FEE
      [] p = "kalshi" -> KALSHI_FEE
      [] p = "predictit" -> PREDICTIT_FEE
      [] p = "azuro" -> AZURO_FEE
      [] OTHER -> DEFAULT_FEE

\* str.lower() on the outcome names the model uses
Lower(name) ==
    CASE name = "Yes" -> "yes"
      [] name = "YES" -> "yes"
      [] name = "No" -> "no"
      [] name = "NO" -> "no"
      [] name = "True" -> "true"
      [] name = "False" -> "false"
      [] name = "Home" -> "home"
      [] name = "Draw" -> "draw"
      [] name = "Away" -> "away"
      [] name = "Trump" -> "trump"
      [] name = "Harris" -> "harris"
      [] name = "Other" -> "other"
      [] OTHER -> name

\* Optional[float]: <<>> is None, <<p>> is the price p
None == <<>>
Some(p) == <<p>>

MinOf(S) == CHOOSE x \in S : \A y \in S : x <= y

\* PlatformMarket.best_yes_price
BestYesPrice(m) ==
    LET named == {i \in DOMAIN m.outcomes : Lower(m.outcomes[i].name) \in {"yes", "true"}}
    IN  IF named # {} THEN Some(m.outcomes[MinOf(named)].price)
        ELSE IF Len(m.outcomes) > 0 THEN Some(m.outcomes[1].price)
        ELSE None

\* PlatformMarket.best_no_price
BestNoPrice(m) ==
    LET named == {i \in DOMAIN m.outcomes : Lower(m.outcomes[i].name) \in {"no", "false"}}
    IN  IF named # {} THEN Some(m.outcomes[MinOf(named)].price)
        ELSE IF Len(m.outcomes) > 1 THEN Some(m.outcomes[2].price)
        ELSE None

----------------------------------------------------------------------------
(* bot/event_matcher.py *)

\* EventMatcher.ENTITIES
ENTITIES ==
    {"trump", "biden", "harris", "vance", "newsom", "desantis", "musk", "elon",
     "starmer", "keir", "putin", "zelensky", "xi", "macron", "scholz", "modi",
     "khamenei", "netanyahu", "trudeau", "milei", "altman", "zuckerberg",
     "nato", "fed", "sec", "congress", "senate", "supreme", "court",
     "spacex", "tesla", "openai", "twitter", "meta", "google",
     "ukraine", "russia", "china", "iran", "israel", "gaza", "greenland",
     "taiwan", "uk", "britain", "us", "usa", "america",
     "recession", "ceasefire", "war", "pandemic", "bitcoin", "btc", "crypto",
     "election", "president", "impeach", "veto"}

\* EventMatcher.YEARS
YEARS == {"2024", "2025", "2026", "2027", "2028"}

\* the tokens re.findall(r'\b(202[4-9])\b', text) can return
YearTokens == {"2024", "2025", "2026", "2027", "2028", "2029"}

\* the action words of _extract_keywords
ActionWords ==
    {"win", "lose", "leave", "remain", "resign", "ceasefire",
     "recession", "cut", "raise", "reach", "hit", "join"}

\* EventMatcher._extract_keywords; a question is the set of its lower-case
\* [a-z0-9]+ tokens
ExtractKeywords(question) ==
    (question \cap ENTITIES) \cup (question \cap YearTokens) \cup (question \cap ActionWords)

ENTITY_BONUS == 20      \* entity_bonus = 0.2, in hundredths
YEAR_BONUS == 15        \* year_bonus = 0.15, in hundredths

\* _calculate_similarity without the entity and year bonuses (a faulty
\* variant, for C13)
CalculateSimilarityJaccardOnly(m1, m2, kw1given) ==
    LET kw1 == IF kw1given # {} THEN kw1given ELSE ExtractKeywords(m1.question)
        kw2 == ExtractKeywords(m2.question)
        common == kw1 \cap kw2
        union == kw1 \cup kw2
    IN  IF kw1 = {} \/ kw2 = {} THEN Frac(0, 1)
        ELSE IF common = {} THEN Frac(0, 1)
        ELSE Frac(Cardinality(common), Cardinality(union))

\* EventMatcher._calculate_similarity -> score (the reason string is left out)
CalculateSimilarity(m1, m2, kw1given) ==
    LET kw1 == IF kw1given # {} THEN kw1given ELSE ExtractKeywords(m1.question)
        kw2 == ExtractKeywords(m2.question)
        common == kw1 \cap kw2
        union == kw1 \cup kw2
        entity_bonus == IF common \cap ENTITIES # {} THEN ENTITY_BONUS ELSE 0
        year_bonus == IF common \cap YEARS # {} THEN YEAR_BONUS ELSE 0
        score == Frac(100 * Cardinality(common)
                        + (entity_bonus + year_bonus) * Cardinality(union),
                      100 * Cardinality(union))
    IN  IF kw1 = {} \/ kw2 = {} THEN Frac(0, 1)
        ELSE IF common = {} THEN Frac(0, 1)
        ELSE FMin(score, Frac(1, 1))

MarketKey(m) == <<m.platform, m.market_id>>

\* by_platform: the platforms in order of first appearance
RECURSIVE PlatformsOf(_, _)
PlatformsOf(ms, seen) ==
    IF ms = <<>> THEN seen
    ELSE IF \E i \in DOMAIN seen : seen[i] = ms[1].platform
         THEN PlatformsOf(Tail(ms), seen)
         ELSE PlatformsOf(Tail(ms), Append(seen, ms[1].platform))

OnPlatform(ms, p) == SelectSeq(ms, LAMBDA m : m.platform = p)

\* the inner loop accepting any score that reaches the threshold, a score of 0
\* included (a faulty variant, for C12)
RECURSIVE BestMatchAtLeast(_, _, _, _, _, _)
BestMatchAtLeast(m, keywords, candidates, used, threshold, best) ==
    IF candidates = <<>> THEN best
    ELSE LET candidate == candidates[1]
             score == CalculateSimilarity(m, candidate, keywords)
             best_score == IF best = <<>> THEN Frac(0, 1) ELSE best[1].score
         IN  IF MarketKey(candidate) \in used
             THEN BestMatchAtLeast(m, keywords, Tail(candidates), used, threshold, best)
             ELSE IF FGe(score, best_score) /\ FGe(score, threshold)
                  THEN BestMatchAtLeast(m, keywords, Tail(candidates), used, threshold,
                                        <<[market |-> candidate, score |-> score]>>)
                  ELSE BestMatchAtLeast(m, keywords, Tail(candidates), used, threshold,
                                        best)

\* the inner loop keeping the first candidate that reaches the threshold
\* instead of the best one (a faulty variant, for C21)
RECURSIVE BestMatchFirstReaching(_, _, _, _, _, _)
BestMatchFirstReaching(m, keywords, candidates, used, threshold, best) ==
    IF candidates = <<>> THEN best
    ELSE LET candidate == candidates[1]
             score == CalculateSimilarity(m, candidate, keywords)
         IN  IF MarketKey(candidate) \in used
             THEN BestMatchFirstReaching(m, keywords, Tail(candidates), used, threshold,
                                         best)
             ELSE IF best = <<>> /\ FGt(score, Frac(0, 1)) /\ FGe(score, threshold)
                  THEN BestMatchFirstReaching(m, keywords, Tail(candidates), used,
                                              threshold,
                                              <<[market |-> candidate, score |-> score]>>)
                  ELSE BestMatchFirstReaching(m, keywords, Tail(candidates), used,
                                              threshold, best)

\* the inner loop over one other platform's candidates: the best match so far
\* is replaced only by a strictly higher score that reaches the threshold
RECURSIVE BestMatch(_, _, _, _, _, _)
BestMatch(m, keywords, candidates, used, threshold, best) ==
    IF candidates = <<>> THEN best
    ELSE LET candidate == candidates[1]
             score == CalculateSimilarity(m, candidate, keywords)
             best_score == IF best = <<>> THEN Frac(0, 1) ELSE best[1].score
         IN  IF MarketKey(candidate) \in used
             THEN BestMatch(m, keywords, Tail(candidates), used, threshold, best)
             ELSE IF FGt(score, best_score) /\ FGe(score, threshold)
                  THEN BestMatch(m, keywords, Tail(candidates), used, threshold,
                                 <<[market |-> candidate, score |-> score]>>)
                  ELSE BestMatch(m, keywords, Tail(candidates), used, threshold, best)

\* matches: the best match of every other platform that has one
RECURSIVE Matches(_, _, _, _, _, _)
Matches(m, keywords, others, all, used, threshold) ==
    IF others = <<>> THEN <<>>
    ELSE BestMatch(m, keywords, OnPlatform(all, others[1]), used, threshold, <<>>)
         \o Matches(m, keywords, Tail(others), all, used, threshold)

\* adding the matches without raising event.confidence (a faulty variant,
\* for C29)
RECURSIVE AddMatchesNoConfidence(_, _, _)
AddMatchesNoConfidence(ev, matches, used) ==
    IF matches = <<>> THEN [event |-> ev, used |-> used]
    ELSE LET mm == matches[1].market IN
         IF MarketKey(mm) \in used
         THEN AddMatchesNoConfidence(ev, Tail(matches), used)
         ELSE AddMatchesNoConfidence([ev EXCEPT !.markets = Append(@, mm)],
                                     Tail(matches), used \cup {MarketKey(mm)})

\* event.markets[...] = matched_market for every match not yet used
RECURSIVE AddMatches(_, _, _)
AddMatches(ev, matches, used) ==
    IF matches = <<>> THEN [event |-> ev, used |-> used]
    ELSE LET mm == matches[1].market IN
         IF MarketKey(mm) \in used
         THEN AddMatches(ev, Tail(matches), used)
         ELSE AddMatches(
                [ev EXCEPT !.markets = Append(@, mm),
                           !.confidence = IF FGt(matches[1].score, @)
                                          THEN matches[1].score ELSE @],
                Tail(matches), used \cup {MarketKey(mm)})

\* the loop appending an event for every main market with keywords, matched
\* or not (a faulty variant, for C11)
RECURSIVE MatchLoopKeepsUnmatched(_, _, _, _, _, _)
MatchLoopKeepsUnmatched(mains, others, all, used, threshold, matched_events) ==
    IF mains = <<>> THEN matched_events
    ELSE LET m == mains[1]
             keywords == ExtractKeywords(m.question)
             matches == Matches(m, keywords, others, all, used, threshold)
             built == AddMatches([markets |-> <<m>>,
                                  name |-> m.question,
                                  keywords |-> keywords,
                                  confidence |-> Frac(0, 1)],
                                 matches, used \cup {MarketKey(m)})
         IN  IF MarketKey(m) \in used \/ keywords = {}
             THEN MatchLoopKeepsUnmatched(Tail(mains), others, all, used, threshold,
                                          matched_events)
             ELSE MatchLoopKeepsUnmatched(Tail(mains), others, all, built.used, threshold,
                                          Append(matched_events, built.event))

\* the loop leaving matched candidates available to later main markets (a
\* faulty variant, for C22)
RECURSIVE MatchLoopReusesCandidates(_, _, _, _, _, _)
MatchLoopReusesCandidates(mains, others, all, used, threshold, matched_events) ==
    IF mains = <<>> THEN matched_events
    ELSE LET m == mains[1]
             keywords == ExtractKeywords(m.question)
             matches == Matches(m, keywords, others, all, used, threshold)
             built == AddMatches([markets |-> <<m>>,
                                  name |-> m.question,
                                  keywords |-> keywords,
                                  confidence |-> Frac(0, 1)],
                                 matches, used \cup {MarketKey(m)})
         IN  IF MarketKey(m) \in used \/ keywords = {}
             THEN MatchLoopReusesCandidates(Tail(mains), others, all, used, threshold,
                                            matched_events)
             ELSE MatchLoopReusesCandidates(Tail(mains), others, all,
                                            used \cup {MarketKey(m)}, threshold,
                                            IF Len(built.event.markets) > 1
                                            THEN Append(matched_events, built.event)
                                            ELSE matched_events)

\* the loop over the main platform's markets
RECURSIVE MatchLoop(_, _, _, _, _, _)
MatchLoop(mains, others, all, used, threshold, matched_events) ==
    IF mains = <<>> THEN matched_events
    ELSE LET m == mains[1]
             keywords == ExtractKeywords(m.question)
             matches == Matches(m, keywords, others, all, used, threshold)
             built == AddMatches([markets |-> <<m>>,
                                  name |-> m.question,
                                  keywords |-> keywords,
                                  confidence |-> Frac(0, 1)],
                                 matches, used \cup {MarketKey(m)})
         IN  IF MarketKey(m) \in used
             THEN MatchLoop(Tail(mains), others, all, used, threshold, matched_events)
             ELSE IF keywords = {}
             THEN MatchLoop(Tail(mains), others, all, used, threshold, matched_events)
             ELSE IF matches = <<>>
             THEN MatchLoop(Tail(mains), others, all, used \cup {MarketKey(m)},
                            threshold, matched_events)
             ELSE MatchLoop(Tail(mains), others, all, built.used, threshold,
                            IF Len(built.event.markets) > 1
                            THEN Append(matched_events, built.event)
                            ELSE matched_events)

\* EventMatcher.match_markets
MatchMarkets(ms, threshold) ==
    IF ms = <<>> THEN <<>>
    ELSE LET platforms == PlatformsOf(ms, <<>>)
         IN  MatchLoop(OnPlatform(ms, platforms[1]), Tail(platforms), ms, {},
                       threshold, <<>>)

----------------------------------------------------------------------------
(* bot/delta_scanner.py and nodo-x402/src/services/delta_scanner.py *)

(* A question is a record: the set of its lower-case words, the first dollar  *)
(* amount written in it (<<>> if none, else <<number, suffix>> with suffix   *)
(* "K", "M" or ""), and lead, the first capitalised word that is no skip     *)
(* word ("" if none).  An empty question has no words.                       *)

MIN_DELTA_VOLUME == 1000    \* _parse_market: volume < 1000 is skipped
SPREAD_VOLUME == 5000       \* same-market rule: volume > 5000
SPREAD_TOTAL == 95          \* same-market rule: total < 0.95
PROFIT_CAP == 500           \* min(profit, 500)
REACH_CONFIDENCE == 90
NEAR_CONFIDENCE == 60
DIP_CONFIDENCE == 85
SPREAD_CONFIDENCE == 95
NEAR_PROFIT == 5            \* profit_potential of a near-miss

\* DeltaScanner._extract_threshold: the patterns $N K, $N M, $N in this order;
\* a number in 2020..2030 or below 100 is passed over before it is scaled, and
\* the bare pattern $N matches the number of $N K and $N M as well
ExtractThreshold(question) ==
    IF question.amount = <<>> THEN None
    ELSE LET num == question.amount[1]
             suffix == question.amount[2]
             usable == ~(2020 <= num /\ num <= 2030) /\ ~(num < 100)
         IN  IF ~usable THEN None
             ELSE IF suffix = "K" THEN Some(num * 1000)
             ELSE IF suffix = "M" THEN Some(num * 1000000)
             ELSE Some(num)

HasAny(question, ws) == question.words \cap ws # {}

\* DeltaScanner._extract_topic of the bot (substring tests taken on words)
ExtractTopic(question) ==
    IF HasAny(question, {"bitcoin", "btc"}) THEN "BTC"
    ELSE IF HasAny(question, {"ethereum", "eth"}) THEN "ETH"
    ELSE IF HasAny(question, {"solana", "sol"}) THEN "SOL"
    ELSE IF HasAny(question, {"xrp", "ripple"}) THEN "XRP"
    ELSE IF HasAny(question, {"dogecoin", "doge"}) THEN "DOGE"
    ELSE IF HasAny(question, {"trump"}) THEN "TRUMP"
    ELSE IF HasAny(question, {"biden"}) THEN "BIDEN"
    ELSE IF HasAny(question, {"harris"}) THEN "HARRIS"
    ELSE IF HasAny(question, {"musk", "elon"}) THEN "MUSK"
    ELSE IF HasAny(question, {"fed"}) THEN "FED_RATE"
    ELSE IF HasAny(question, {"inflation", "cpi"}) THEN "INFLATION"
    ELSE IF HasAny(question, {"gdp"}) THEN "GDP"
    ELSE IF HasAny(question, {"tesla", "tsla"}) THEN "TESLA"
    ELSE IF HasAny(question, {"sp500", "spy"}) THEN "SP500"
    ELSE IF HasAny(question, {"nasdaq", "qqq"}) THEN "NASDAQ"
    ELSE IF HasAny(question, {"nvidia", "nvda"}) THEN "NVIDIA"
    ELSE IF question.lead # "" THEN question.lead
    ELSE "OTHER"

\* DeltaScanner._extract_topic of nodo-x402
X402ExtractTopic(question) ==
    IF HasAny(question, {"bitcoin", "btc"}) THEN "BTC"
    ELSE IF HasAny(question, {"ethereum", "eth"}) THEN "ETH"
    ELSE IF HasAny(question, {"solana", "sol"}) THEN "SOL"
    ELSE IF HasAny(question, {"trump"}) THEN "TRUMP"
    ELSE IF HasAny(question, {"fed"}) THEN "FED_RATE"
    ELSE "OTHER"

\* DeltaScanner._extract_direction of the bot
ExtractDirection(question) ==
    IF HasAny(question, {"above", "over", "exceed"}) THEN "above"
    ELSE IF HasAny(question, {"below", "under", "drop", "fall", "dip"}) THEN "below"
    ELSE IF HasAny(question, {"reach", "hit"}) THEN "reach"
    ELSE "unknown"

\* DeltaScanner._extract_direction of nodo-x402
X402ExtractDirection(question) ==
    IF HasAny(question, {"above", "over"}) THEN "above"
    ELSE IF HasAny(question, {"below", "under", "dip"}) THEN "below"
    ELSE IF HasAny(question, {"reach", "hit"}) THEN "reach"
    ELSE "unknown"

\* DeltaScanner._parse_market -> <<>> (None) or <<parsed dict>>; x402 is TRUE
\* for the nodo-x402 service
ParseDeltaMarket(raw, x402) ==
    IF raw.question.words = {} THEN <<>>
    ELSE IF Len(raw.outcomes) # 2 \/ Len(raw.outcomePrices) # 2 THEN <<>>
    ELSE IF raw.volume < MIN_DELTA_VOLUME THEN <<>>
    ELSE <<[id |-> raw.id,
            question |-> raw.question,
            yes_price |-> raw.outcomePrices[1],
            no_price |-> raw.outcomePrices[2],
            volume |-> raw.volume,
            threshold |-> ExtractThreshold(raw.question),
            topic |-> IF x402 THEN X402ExtractTopic(raw.question)
                      ELSE ExtractTopic(raw.question),
            direction |-> IF x402 THEN X402ExtractDirection(raw.question)
                          ELSE ExtractDirection(raw.question)]>>

\* parsed: the records _parse_market returned something for, in order
RECURSIVE ParseAll(_, _)
ParseAll(raws, x402) ==
    IF raws = <<>> THEN <<>>
    ELSE ParseDeltaMarket(raws[1], x402) \o ParseAll(Tail(raws), x402)

\* list.sort(key=lambda x: x["threshold"]): stable, ascending
RECURSIVE InsertByThreshold(_, _)
InsertByThreshold(sorted, x) ==
    IF sorted = <<>> THEN <<x>>
    ELSE IF x.threshold[1] < sorted[Len(sorted)].threshold[1]
         THEN Append(InsertByThreshold(SubSeq(sorted, 1, Len(sorted) - 1), x),
                     sorted[Len(sorted)])
         ELSE Append(sorted, x)

RECURSIVE SortByThresholdFrom(_, _)
SortByThresholdFrom(sorted, rest) ==
    IF rest = <<>> THEN sorted
    ELSE SortByThresholdFrom(InsertByThreshold(sorted, rest[1]), Tail(rest))

SortByThreshold(ms) == SortByThresholdFrom(<<>>, ms)

\* `m.get("threshold")`: a threshold that is not None and not 0
HasThreshold(m) == m.threshold # None /\ m.threshold[1] # 0

DeltaOpportunity(a, b, topic, profit, confidence) ==
    [event_a |-> a, event_b |-> b, topic |-> topic,
     profit_potential |-> profit, confidence |-> confidence]

\* max(price, 0.01), in cents
FloorPrice(price) == IF price > 1 THEN price ELSE 1

\* a faulty variant of rule 1: a pair of close thresholds is examined too
ReachPairAnyRatio(topic, lower, higher) ==
    IF higher.yes_price > lower.yes_price /\ 10 * lower.yes_price > 1
    THEN <<DeltaOpportunity(higher, lower, topic,
                            FMin(Frac((higher.yes_price - lower.yes_price) * 100,
                                      FloorPrice(lower.yes_price)),
                                 Frac(PROFIT_CAP, 1)),
                            REACH_CONFIDENCE)>>
    ELSE <<>>

\* rule 1 on the adjacent pair (lower, higher): a reach violation, a near-miss
\* or nothing
ReachPair(topic, lower, higher) ==
    IF 10 * higher.threshold[1] < 11 * lower.threshold[1] THEN <<>>
    ELSE IF higher.yes_price > lower.yes_price /\ 10 * lower.yes_price > 1
    THEN <<DeltaOpportunity(higher, lower, topic,
                            FMin(Frac((higher.yes_price - lower.yes_price) * 100,
                                      FloorPrice(lower.yes_price)),
                                 Frac(PROFIT_CAP, 1)),
                            REACH_CONFIDENCE)>>
    ELSE IF (higher.yes_price - lower.yes_price < 2)
            /\ (lower.yes_price - higher.yes_price < 2) /\ lower.yes_price > 5
    THEN <<DeltaOpportunity(higher, lower, topic, Frac(NEAR_PROFIT, 1), NEAR_CONFIDENCE)>>
    ELSE <<>>

\* the nodo-x402 service has no near-miss rule
X402ReachPair(topic, lower, higher) ==
    IF 10 * higher.threshold[1] < 11 * lower.threshold[1] THEN <<>>
    ELSE IF higher.yes_price > lower.yes_price /\ 10 * lower.yes_price > 1
    THEN <<DeltaOpportunity(higher, lower, topic,
                            FMin(Frac((higher.yes_price - lower.yes_price) * 100,
                                      FloorPrice(lower.yes_price)),
                                 Frac(PROFIT_CAP, 1)),
                            REACH_CONFIDENCE)>>
    ELSE <<>>

\* rule 2 on the adjacent pair (lower, higher) of dip markets
DipPair(topic, lower, higher) ==
    IF lower.yes_price > higher.yes_price /\ 10 * higher.yes_price > 1
    THEN <<DeltaOpportunity(lower, higher, topic,
                            FMin(Frac((lower.yes_price - higher.yes_price) * 100,
                                      FloorPrice(higher.yes_price)),
                                 Frac(PROFIT_CAP, 1)),
                            DIP_CONFIDENCE)>>
    ELSE <<>>

\* for i in range(len(sorted) - 1): the rule on (sorted[i], sorted[i + 1])
PairRule(rule, topic, lower, higher) ==
    CASE rule = "reach" -> ReachPair(topic, lower, higher)
      [] rule = "x402_reach" -> X402ReachPair(topic, lower, higher)
      [] rule = "dip" -> DipPair(topic, lower, higher)

RECURSIVE AdjacentPairs(_, _, _)
AdjacentPairs(rule, topic, sorted) ==
    IF Len(sorted) < 2 THEN <<>>
    ELSE PairRule(rule, topic, sorted[1], sorted[2])
         \o AdjacentPairs(rule, topic, Tail(sorted))

\* rule 3 on one market: <<>>, an opportunity, or the error the division by
\* total raises
SpreadOf(topic, m) ==
    LET total == m.yes_price + m.no_price IN
    IF total < SPREAD_TOTAL /\ m.volume > SPREAD_VOLUME
    THEN IF total = 0 THEN Raised("ZeroDivisionError")
         ELSE Returned(<<DeltaOpportunity(m, m, topic, Frac((ONE - total) * 100, total),
                                          SPREAD_CONFIDENCE)>>)
    ELSE Returned(<<>>)

\* the loop of rule 3: the first error ends it
RECURSIVE Spreads(_, _, _)
Spreads(topic, ms, acc) ==
    IF ms = <<>> THEN Returned(acc)
    ELSE LET one == SpreadOf(topic, ms[1]) IN
         IF one.kind = "raise" THEN one
         ELSE Spreads(topic, Tail(ms), acc \o one.list)

IsReach(m) == HasThreshold(m) /\ m.direction \in {"above", "reach"}
IsDip(m) == HasThreshold(m) /\ m.direction = "below"

\* DeltaScanner._find_inconsistencies of the bot
FindInconsistencies(topic, ms) ==
    LET reach_markets == SortByThreshold(SelectSeq(ms, IsReach))
        dip_markets == SortByThreshold(SelectSeq(ms, IsDip))
        all_threshold == SelectSeq(ms, HasThreshold)
    IN  Spreads(topic, all_threshold,
                AdjacentPairs("reach", topic, reach_markets)
                \o AdjacentPairs("dip", topic, dip_markets))

\* DeltaScanner._find_inconsistencies of nodo-x402: rule 3 runs over every
\* market of the group
X402FindInconsistencies(topic, ms) ==
    LET reach_markets == SortByThreshold(SelectSeq(ms, IsReach))
    IN  Spreads(topic, ms, AdjacentPairs("x402_reach", topic, reach_markets))

\* _group_by_topic: the topics in order of first appearance
RECURSIVE TopicsOf(_, _)
TopicsOf(ms, seen) ==
    IF ms = <<>> THEN seen
    ELSE IF \E i \in DOMAIN seen : seen[i] = ms[1].topic
         THEN TopicsOf(Tail(ms), seen)
         ELSE TopicsOf(Tail(ms), Append(seen, ms[1].topic))

InTopic(ms, topic) == SelectSeq(ms, LAMBDA m : m.topic = topic)

\* the loop of scan over the groups: the first error ends the scan
RECURSIVE FindInGroups(_, _, _, _)
FindInGroups(topics, parsed, x402, acc) ==
    IF topics = <<>> THEN Returned(acc)
    ELSE LET opps == IF x402
                     THEN X402FindInconsistencies(topics[1], InTopic(parsed, topics[1]))
                     ELSE FindInconsistencies(topics[1], InTopic(parsed, topics[1]))
         IN  IF opps.kind = "raise" THEN opps
             ELSE FindInGroups(Tail(topics), parsed, x402, acc \o opps.list)

\* opportunities.sort(key=lambda x: x.profit_potential, reverse=True)
RECURSIVE InsertByProfit(_, _)
InsertByProfit(sorted, x) ==
    IF sorted = <<>> THEN <<x>>
    ELSE IF FGt(x.profit_potential, sorted[Len(sorted)].profit_potential)
         THEN Append(InsertByProfit(SubSeq(sorted, 1, Len(sorted) - 1), x),
                     sorted[Len(sorted)])
         ELSE Append(sorted, x)

RECURSIVE SortByProfitFrom(_, _)
SortByProfitFrom(sorted, rest) ==
    IF rest = <<>> THEN sorted
    ELSE SortByProfitFrom(InsertByProfit(sorted, rest[1]), Tail(rest))

SortByProfitDesc(s) == SortByProfitFrom(<<>>, s)

\* DeltaScanner.scan on the records the API returned (both services)
DeltaScan(raws, x402) ==
    LET parsed == ParseAll(raws, x402)
        found == FindInGroups(TopicsOf(parsed, <<>>), parsed, x402, <<>>)
    IN  IF found.kind = "raise" THEN found
        ELSE Returned(SortByProfitDesc(found.list))

----------------------------------------------------------------------------
(* bot/platforms/polymarket.py and bot/polymarket_client.py: _parse_market *)

(* A field of a raw record is missing, given with a value, or malformed (a    *)
(* string that is not JSON).  A price of a given list is a string.           *)
Missing == [kind |-> "missing"]
Malformed == [kind |-> "malformed"]
Given(v) == [kind |-> "given", value |-> v]

DEFAULT_PRICE == 50     \* the default price 0.5, in cents

\* float(p) of the price strings of the model, in cents; others are rejected
IsFloat(text) == text \in {"0.40", "0.55"}
Float(text) == IF text = "0.40" THEN 40 ELSE 55

\* data.get("outcomes", '["Yes", "No"]') through json.loads
RawOutcomeNames(d) ==
    IF d.outcomes = Missing THEN Returned(<<"Yes", "No">>)
    ELSE IF d.outcomes = Malformed THEN Raised("JSONDecodeError")
    ELSE Returned(d.outcomes.value)

\* data.get("outcomePrices", '["0.5", "0.5"]') through json.loads and float
RawPrices(d) ==
    IF d.outcomePrices = Missing THEN Returned(<<DEFAULT_PRICE, DEFAULT_PRICE>>)
    ELSE IF d.outcomePrices = Malformed THEN Raised("JSONDecodeError")
    ELSE IF \E i \in DOMAIN d.outcomePrices.value : ~IsFloat(d.outcomePrices.value[i])
         THEN Raised("ValueError")
         ELSE Returned([i \in DOMAIN d.outcomePrices.value |->
                            Float(d.outcomePrices.value[i])])

\* the try block of PolymarketPlatform._parse_market
PlatformParseBody(d) ==
    LET outcome_names == RawOutcomeNames(d)
        prices == RawPrices(d)
    IN  IF outcome_names.kind = "raise" THEN outcome_names
        ELSE IF prices.kind = "raise" THEN prices
        ELSE LET outcomes == [i \in DOMAIN outcome_names.list |->
                                [name |-> outcome_names.list[i],
                                 price |-> IF i <= Len(prices.list) THEN prices.list[i]
                                           ELSE DEFAULT_PRICE]]
                 question == IF d.question = Missing THEN {} ELSE d.question.value
             IN  IF Len(outcomes) < 2 THEN NoneResult
                 ELSE [kind |-> "market",
                       market |-> [platform |-> "polymarket", market_id |-> d.id,
                                   question |-> question, outcomes |-> outcomes,
                                   active |-> TRUE, resolved |-> FALSE,
                                   keywords |-> ExtractKeywords(question)]]

\* the try block of PolymarketClient._parse_market; the question text is "Q"
PolymarketClientParseBody(d) ==
    LET outcomes == RawOutcomeNames(d)
        prices == RawPrices(d)
    IN  IF outcomes.kind = "raise" THEN outcomes
        ELSE IF prices.kind = "raise" THEN prices
        ELSE IF Len(prices.list) < 2 THEN NoneResult
        ELSE [kind |-> "market",
              market |-> [id |-> d.id,
                          question |-> IF d.question = Missing THEN "Unknown" ELSE "Q",
                          active |-> TRUE, closed |-> FALSE,
                          outcomes |-> outcomes.list, outcome_prices |-> prices.list,
                          volume |-> 0]]

\* a faulty variant: the body without `except Exception: return None`
ExceptReturnsNoneNot(result) == result

\* except Exception as e: logger.warning(...); return None
ExceptReturnsNone(result) == IF result.kind = "raise" THEN NoneResult ELSE result

\* PolymarketPlatform._parse_market(data)
PlatformParseMarket(d) == ExceptReturnsNone(PlatformParseBody(d))

\* PolymarketClient._parse_market(data)
PolymarketClientParseMarket(d) == ExceptReturnsNone(PolymarketClientParseBody(d))

----------------------------------------------------------------------------
(* nodo-x402/src/middleware/x402.py *)

(* A path is the sequence of the pieces it is written from, the first being  *)
(* the longest endpoint that is a prefix of it (or the whole path); a header *)
(* is None or Some(string).                                                  *)
PAID_ENDPOINTS ==
    {"/analyze", "/yield/scan", "/delta/scan", "/smart/analyze", "/arbitrage/scan",
     "/markets", "/webhooks"}
FREE_ENDPOINTS ==
    {"/", "/docs", "/redoc", "/openapi.json", "/health", "/x402/info",
     "/account/balance", "/account/usage"}

\* path in FREE_ENDPOINTS or path.startswith("/docs") or path.startswith("/redoc")
IsFreePath(path) ==
    \/ Len(path) = 1 /\ path[1] \in FREE_ENDPOINTS
    \/ path[1] \in {"/docs", "/redoc"}

\* some endpoint of PAID_ENDPOINTS is a prefix of the path
IsPaidPath(path) == path[1] \in PAID_ENDPOINTS

\* truth value of a header: None and "" are false
Truthy(header) == header # None /\ header[1] # ""

\* X402Middleware._verify_payment: False without a client, when the
\* verification raises, and when the result is not valid
VerifyPayment(client) == client = "valid"

PassedOn == [kind |-> "handler"]
PaymentResponse(code) == [kind |-> "402", code |-> code]

\* X402Middleware.dispatch; the log line of a verified payment slices the
\* X-Payment-Tx header
Dispatch(req, client) ==
    IF IsFreePath(req.path) THEN PassedOn
    ELSE IF ~IsPaidPath(req.path) THEN PassedOn
    ELSE IF Truthy(req.payment_signature) \/ Truthy(req.payment_tx)
         THEN IF VerifyPayment(client)
              THEN IF req.payment_tx = None THEN Raised("TypeError") ELSE PassedOn
              ELSE PaymentResponse("PAYMENT_INVALID")
         ELSE PaymentResponse("PAYMENT_REQUIRED")

----------------------------------------------------------------------------
(* nodo-x402/src/services/ai_orchestrator.py: consensus *)

\* the actions _parse_model_response can return
ParsedActions == {"BUY_YES", "BUY_NO", "SKIP", "HOLD"}

\* votes = {"BUY_YES": 0, "BUY_NO": 0, "SKIP": 0}, in insertion order
VoteKeys == <<"BUY_YES", "BUY_NO", "SKIP">>

\* sum of the confidences of the results with this action
RECURSIVE ConfidenceFor(_, _)
ConfidenceFor(results, action) ==
    IF results = <<>> THEN 0
    ELSE (IF results[1].action = action THEN results[1].confidence ELSE 0)
         + ConfidenceFor(Tail(results), action)

\* max(votes, key=votes.get): the first key of the largest vote
ConsensusAction(results) ==
    LET best == CHOOSE i \in DOMAIN VoteKeys :
                    /\ \A j \in DOMAIN VoteKeys :
                          ConfidenceFor(results, VoteKeys[j]) <= ConfidenceFor(results, VoteKeys[i])
                    /\ \A j \in 1..(i - 1) :
                          ConfidenceFor(results, VoteKeys[j]) < ConfidenceFor(results, VoteKeys[i])
    IN  VoteKeys[best]

Recommendation(action) ==
    IF action = "BUY_YES" THEN "Buy YES position"
    ELSE IF action = "BUY_NO" THEN "Buy NO position"
    ELSE "Skip this market"

\* AIOrchestrator._build_consensus; agreement "k/n" is the pair <<k, n>>
BuildConsensus(results) ==
    IF results = <<>>
    THEN [action |-> "SKIP", agreement |-> <<0, 0>>, confidence |-> 0,
          recommendation |-> "No analysis available"]
    ELSE LET consensus_action == ConsensusAction(results)
             consensus_results == SelectSeq(results, LAMBDA r : r.action = consensus_action)
         IN  [action |-> consensus_action,
              agreement |-> <<Len(consensus_results), Len(results)>>,
              confidence |-> IF consensus_results # <<>>
                             THEN ConfidenceFor(results, consensus_action)
                                    \div Len(consensus_results)
                             ELSE 0,
              recommendation |-> Recommendation(consensus_action)]

\* AIOrchestrator._find_dissent: None, or the first dissenter of the highest
\* confidence
FindDissent(results, consensus_action) ==
    LET dissenters == SelectSeq(results, LAMBDA r : r.action # consensus_action) IN
    IF dissenters = <<>> THEN None
    ELSE LET d == CHOOSE i \in DOMAIN dissenters :
                    /\ \A j \in DOMAIN dissenters :
                          dissenters[j].confidence <= dissenters[i].confidence
                    /\ \A j \in 1..(i - 1) :
                          dissenters[j].confidence < dissenters[i].confidence
         IN  Some([model |-> dissenters[d].model, action |-> dissenters[d].action])

----------------------------------------------------------------------------
(* bot/cross_platform_scanner.py *)

\* CrossPlatformScanner.matcher = EventMatcher(similarity_threshold=0.5)
SimilarityThreshold == Frac(1, 2)

\* `if price and price > 0`
Quoted(opt) == opt # None /\ opt[1] # 0 /\ opt[1] > 0

\* yes_prices / no_prices: platform -> price, in the order of event.markets
YesPrices(ev) ==
    LET quoted == SelectSeq(ev.markets, LAMBDA m : Quoted(BestYesPrice(m)))
    IN  [i \in DOMAIN quoted |-> <<quoted[i].platform, BestYesPrice(quoted[i])[1]>>]

NoPrices(ev) ==
    LET quoted == SelectSeq(ev.markets, LAMBDA m : Quoted(BestNoPrice(m)))
    IN  [i \in DOMAIN quoted |-> <<quoted[i].platform, BestNoPrice(quoted[i])[1]>>]

\* min(prices.items(), key=lambda x: x[1]): the first item of the least price
FirstMin(items) ==
    LET i == MinOf({j \in DOMAIN items : \A k \in DOMAIN items : items[j][2] <= items[k][2]})
    IN  items[i]

CrossOpportunity(ev, best_yes, best_no) ==
    LET total_cost == best_yes[2] + best_no[2]
        yes_fee == TradingFee(best_yes[1])
        no_fee == TradingFee(best_no[1])
    IN  [event |-> ev,
         yes_platform |-> best_yes[1],
         yes_price |-> best_yes[2],
         no_platform |-> best_no[1],
         no_price |-> best_no[2],
         total_cost |-> total_cost,
         \* gross_profit = 1.0 - total_cost; gross_profit_pct = gross / total * 100
         gross_profit_pct |-> Frac((ONE - total_cost) * 100, total_cost),
         \* avg_fee = (yes_fee + no_fee) / 2; net_profit = gross_profit - avg_fee
         net_profit_pct |->
             Frac((2 * (ONE - total_cost) - (yes_fee + no_fee)) * 100, 2 * total_cost),
         yes_platform_fee |-> yes_fee,
         no_platform_fee |-> no_fee]

\* calculate_returns charging the fee of the YES platform instead of the
\* average of the two (a faulty variant, for C30)
CrossCalculateReturnsYesFee(arb, investment) ==
    LET T == arb.total_cost
        units == Frac(investment * ONE, T)
        fee_amount == Frac(investment * arb.yes_platform_fee, T)
        net_return == FSub(units, fee_amount)
        net_profit == FSub(net_return, Frac(investment, 1))
    IN  [investment |-> investment,
         units |-> units,
         yes_investment |-> Frac(investment * arb.yes_price, T),
         no_investment |-> Frac(investment * arb.no_price, T),
         yes_platform |-> arb.yes_platform,
         no_platform |-> arb.no_platform,
         gross_return |-> units,
         fee |-> fee_amount,
         net_return |-> net_return,
         net_profit |-> net_profit,
         roi_pct |-> IF investment > 0
                     THEN Frac(net_profit[1] * 100, net_profit[2] * investment)
                     ELSE Frac(0, 1)]

\* CrossPlatformArbitrage.calculate_returns; money in dollars, as fractions
\* (prices in cents, fees in hundredths)
CrossCalculateReturns(arb, investment) ==
    LET T == arb.total_cost
        units == Frac(investment * ONE, T)
        \* avg_fee = (yes_platform_fee + no_platform_fee) / 2
        fee_amount == Frac(investment * (arb.yes_platform_fee + arb.no_platform_fee),
                           2 * T)
        net_return == FSub(units, fee_amount)
        net_profit == FSub(net_return, Frac(investment, 1))
    IN  [investment |-> investment,
         units |-> units,
         yes_investment |-> Frac(investment * arb.yes_price, T),
         no_investment |-> Frac(investment * arb.no_price, T),
         yes_platform |-> arb.yes_platform,
         no_platform |-> arb.no_platform,
         gross_return |-> units,
         fee |-> fee_amount,
         net_return |-> net_return,
         net_profit |-> net_profit,
         roi_pct |-> IF investment > 0
                     THEN Frac(net_profit[1] * 100, net_profit[2] * investment)
                     ELSE Frac(0, 1)]

\* _find_arbitrage without the same-platform check (a faulty variant, for C6)
FindArbitrageSamePlatformToo(ev) ==
    LET yes_prices == YesPrices(ev)
        no_prices == NoPrices(ev)
    IN  IF Len(yes_prices) < 1 \/ Len(no_prices) < 1 THEN <<>>
        ELSE LET best_yes == FirstMin(yes_prices)
                 best_no == FirstMin(no_prices)
             IN  IF best_yes[2] + best_no[2] >= ONE THEN <<>>
                 ELSE <<CrossOpportunity(ev, best_yes, best_no)>>

\* _find_arbitrage taking the first quote instead of the cheapest (a faulty
\* variant, for C7)
FindArbitrageFirstQuote(ev) ==
    LET yes_prices == YesPrices(ev)
        no_prices == NoPrices(ev)
    IN  IF Len(yes_prices) < 1 \/ Len(no_prices) < 1 THEN <<>>
        ELSE LET best_yes == yes_prices[1]
                 best_no == FirstMin(no_prices)
             IN  IF best_yes[2] + best_no[2] >= ONE THEN <<>>
                 ELSE IF best_yes[1] = best_no[1] THEN <<>>
                 ELSE <<CrossOpportunity(ev, best_yes, best_no)>>

\* CrossPlatformScanner._find_arbitrage
FindArbitrage(ev) ==
    LET yes_prices == YesPrices(ev)
        no_prices == NoPrices(ev)
    IN  IF Len(yes_prices) < 1 \/ Len(no_prices) < 1 THEN <<>>
        ELSE LET best_yes == FirstMin(yes_prices)
                 best_no == FirstMin(no_prices)
             IN  IF best_yes[2] + best_no[2] >= ONE THEN <<>>
                 ELSE IF best_yes[1] = best_no[1] THEN <<>>
                 ELSE <<CrossOpportunity(ev, best_yes, best_no)>>

\* all_markets: the platforms' lists, concatenated in the order of the dict
RECURSIVE AllMarkets(_, _)
AllMarkets(got, order) ==
    IF order = <<>> THEN <<>>
    ELSE got[order[1]] \o AllMarkets(got, Tail(order))

RECURSIVE FindAll(_)
FindAll(events) ==
    IF events = <<>> THEN <<>>
    ELSE FindArbitrage(events[1]) \o FindAll(Tail(events))

\* scan without the is_profitable filter (a faulty variant, for C3)
CrossScanSortOnly(got, threshold) ==
    LET all_markets == AllMarkets(got, PlatformOrder)
        matched_events == MatchMarkets(all_markets, SimilarityThreshold)
        multi_platform_events == SelectSeq(matched_events, LAMBDA e : Len(e.markets) > 1)
    IN  IF Len(all_markets) < 2 THEN <<>>
        ELSE SortByNetProfitDesc(FindAll(multi_platform_events))

\* CrossPlatformScanner.scan
CrossScan(got, threshold) ==
    LET all_markets == AllMarkets(got, PlatformOrder)
        matched_events == MatchMarkets(all_markets, SimilarityThreshold)
        multi_platform_events == SelectSeq(matched_events, LAMBDA e : Len(e.markets) > 1)
        opps == SortByNetProfitDesc(FindAll(multi_platform_events))
    IN  IF Len(all_markets) < 2 THEN <<>>
        ELSE SelectSeq(opps, LAMBDA o : IsProfitable(o, threshold))

----------------------------------------------------------------------------
(* bot/telegram_bot.py: MarketScanner and the module-level cache *)

SHOWN == 7                  \* the opportunities a scan returns and caches
TOP_POOL == 25              \* opportunities[:25], the pool the shuffle draws from
YIELD_MIN_VOLUME == 5000    \* _parse_market: volume < 5000 is skipped
MAX_DAYS == 60              \* _parse_market: days > 60 is skipped
MAX_BUY_PRICE == 995        \* buy_price >= 0.995 is skipped, in tenths of a cent

\* round(x, 1) of Python, as a whole number of tenths: nearest, ties to even
Round1(f) ==
    LET n == f[1] * 10
        d == f[2]
        q == Floor(n, d)
        r == n - q * d
    IN  IF 2 * r < d THEN q
        ELSE IF 2 * r > d THEN q + 1
        ELSE IF q % 2 = 0 THEN q ELSE q + 1

\* MarketScanner._parse_market -> <<>> (None) or <<opportunity dict>>; prices
\* and min_prob in cents, endDate as the whole days left (<<>> if missing)
YieldParseMarket(m, min_prob) ==
    LET yes_price == m.outcomePrices[1]
        no_price == m.outcomePrices[2]
        buy_yes == yes_price >= min_prob
        buy_no == ~buy_yes /\ no_price >= min_prob
        buy_price == IF buy_yes THEN yes_price ELSE no_price
        days == IF m.endDate[1] > 1 THEN m.endDate[1] ELSE 1
    IN  IF Len(m.outcomes) # 2 THEN <<>>
        ELSE IF ~buy_yes /\ ~buy_no THEN <<>>
        ELSE IF 10 * buy_price >= MAX_BUY_PRICE THEN <<>>
        ELSE IF m.volume < YIELD_MIN_VOLUME THEN <<>>
        ELSE IF m.endDate = <<>> THEN <<>>
        ELSE IF days > MAX_DAYS THEN <<>>
        ELSE <<[id |-> m.id,
                outcome |-> IF buy_yes THEN "YES" ELSE "NO",
                buy_price |-> buy_price,
                profit_pct |-> Round2(Frac((ONE - buy_price) * 100, buy_price)),
                days |-> days,
                apy |-> Round1(Frac((ONE - buy_price) * 100 * 365, buy_price * days)),
                volume |-> m.volume]>>

\* the loop of scan over the markets of the response
RECURSIVE YieldParseAll(_, _)
YieldParseAll(ms, min_prob) ==
    IF ms = <<>> THEN <<>>
    ELSE YieldParseMarket(ms[1], min_prob) \o YieldParseAll(Tail(ms), min_prob)

\* list.sort(key=lambda x: x["apy"], reverse=True): stable, descending
RECURSIVE InsertByApy(_, _)
InsertByApy(sorted, x) ==
    IF sorted = <<>> THEN <<x>>
    ELSE IF sorted[1].apy >= x.apy
         THEN <<sorted[1]>> \o InsertByApy(Tail(sorted), x)
         ELSE <<x>> \o sorted

RECURSIVE SortByApyFrom(_, _)
SortByApyFrom(sorted, rest) ==
    IF rest = <<>> THEN sorted
    ELSE SortByApyFrom(InsertByApy(sorted, rest[1]), Tail(rest))

SortByApyDesc(s) == SortByApyFrom(<<>>, s)

\* s[:n]
Prefix(s, n) == SubSeq(s, 1, IF Len(s) < n THEN Len(s) ELSE n)

\* random.shuffle(top_pool); result = top_pool[:k]; result.sort(by apy,
\* descending): k different entries of the pool in descending order of apy,
\* entries of equal apy in any order
RECURSIVE ShuffledTop(_, _, _)
ShuffledTop(pool, k, ceiling) ==
    IF k = 0 THEN {<<>>}
    ELSE UNION {{<<x>> \o rest : rest \in ShuffledTop(pool \ {x}, k - 1, x.apy)} :
                    x \in {y \in pool : y.apy <= ceiling}}

\* scan caching the whole sorted list instead of the list it returns (a
\* faulty variant, for C28)
ScanOutcomesCachesAll(ms, min_prob, shuffle) ==
    LET sorted == SortByApyDesc(YieldParseAll(ms, min_prob))
    IN  IF shuffle /\ Len(sorted) > SHOWN
        THEN {[result |-> r, cached |-> sorted] :
                r \in ShuffledTop(Range(Prefix(sorted, TOP_POOL)), SHOWN,
                                  sorted[1].apy)}
        ELSE {[result |-> Prefix(sorted, SHOWN), cached |-> sorted]}

\* MarketScanner.scan from the parsed response on: what it can return and
\* what it then leaves in cached_opportunities
ScanOutcomes(ms, min_prob, shuffle) ==
    LET sorted == SortByApyDesc(YieldParseAll(ms, min_prob))
    IN  IF shuffle /\ Len(sorted) > SHOWN
        THEN {[result |-> r, cached |-> r] :
                r \in ShuffledTop(Range(Prefix(sorted, TOP_POOL)), SHOWN,
                                  sorted[1].apy)}
        ELSE {[result |-> Prefix(sorted, SHOWN),
               cached |-> Prefix(sorted, SHOWN)]}

----------------------------------------------------------------------------

(* Inputs *)

\* config.MIN_PROFIT_THRESHOLD: the default 0.5 and a stricter setting
Thresholds == {Frac(1, 2), Frac(3, 1)}

Investments == {0, 1, 100}

\* outcome prices of the intra-platform markets, in cents
IntraPrices == {0, 40, 45, 55, 60, 100}
ListPrices == {40, 45, 55, 60}

CandidateNames == <<"Trump", "Harris", "Other", "Nobody", "Someone">>

OutcomeNames(k) ==
    IF k = 2 THEN <<"Yes", "No">> ELSE [i \in 1..k |-> CandidateNames[i]]

\* a polymarket_client.Market; question and volume are the raw fields the
\* nodo-x402 scanner reads from the same Gamma record
MarketOf(id, q, a, c, prices, v) ==
    [id |-> id, question |-> q, active |-> a, closed |-> c,
     outcomes |-> OutcomeNames(Len(prices)), outcome_prices |-> prices, volume |-> v]

\* one market of any shape, alone in the list
SingleFeeds ==
    {<<MarketOf(1, q, a, c, prices, v)>> :
        q \in {"", "Q"}, a \in BOOLEAN, c \in BOOLEAN,
        prices \in SeqsOfLen(IntraPrices, 2, MaxOutcomes), v \in {500, 10000}}

\* several open binary markets
ListFeeds ==
    {[i \in DOMAIN quotes |-> MarketOf(i, "Q", TRUE, FALSE, quotes[i], 10000)] :
        quotes \in SeqsOfLen(ListPrices \X ListPrices, 2, MaxFeed)}

Feeds == {<<>>} \cup SingleFeeds \cup ListFeeds

\* prices the platforms of an event quote, in cents
YesQuotes == {0, 47, 50, 55}
NoQuotes == {0, 47, 52, 55}
PairPrices == {47, 55}

EventNames(k) ==
    IF k <= 3 THEN SubSeq(<<"Home", "Draw", "Away">>, 1, k)
    ELSE [i \in 1..k |-> CandidateNames[i]]

Outcome(name, price) == [name |-> name, price |-> price]

\* outcome lists of a platform market: Yes/No in both orders, two named
\* candidates, three or more outcomes, a single outcome, none
OutcomeLists ==
    {<<Outcome("Yes", y), Outcome("No", n)>> : y \in YesQuotes, n \in NoQuotes}
    \cup {<<Outcome("No", n), Outcome("Yes", (47 + 55) - n)>> : n \in PairPrices}
    \cup {<<Outcome("Trump", a), Outcome("Harris", (47 + 55) - a)>> : a \in PairPrices}
    \cup {[i \in 1..k |-> Outcome(EventNames(k)[i],
                                  IF i = 1 THEN a ELSE IF i = 2 THEN ((47 + 55) - a) ELSE 50)] :
            a \in PairPrices, k \in 3..MaxOutcomes}
    \cup {<<Outcome("Yes", 47)>>, <<>>}

PlatformMarketOf(p, id, q, outs, a, r) ==
    [platform |-> p, market_id |-> id, question |-> q, outcomes |-> outs,
     active |-> a, resolved |-> r]

EventQuestion == {"will", "trump", "win", "2024"}

EventPlatforms == {"polymarket", "kalshi", "predictit"}

InjectiveSeqs(S, lo, hi) ==
    {s \in SeqsOfLen(S, lo, hi) : \A i, j \in DOMAIN s : i # j => s[i] # s[j]}

EventOf(ms) ==
    [markets |-> ms, name |-> EventQuestion,
     keywords |-> ExtractKeywords(EventQuestion), confidence |-> Frac(1, 1)]

\* a MatchedEvent handed to _find_arbitrage: one open market per platform,
\* the platforms in the order ps and their outcome lists outs
EventOrders == InjectiveSeqs(EventPlatforms, 2, MaxEventPlatforms)

EventWith(ps, outs) ==
    EventOf([i \in DOMAIN ps |->
                PlatformMarketOf(ps[i], 1, EventQuestion, outs[i], TRUE, FALSE)])

NoEvent == [markets |-> <<>>, name |-> {}, keywords |-> {}, confidence |-> Frac(0, 1)]

\* questions of two topics as the platforms word them
PolymarketQuestions ==
    {{"will", "trump", "win", "the", "2024", "election"}, {"will", "bitcoin", "hit", "100k"}}
PredictItQuestions ==
    {{"trump", "wins", "2024", "election"}, {"bitcoin", "hit", "2025"}}
KalshiQuestions == {{"trump", "2024", "win"}}

\* PolymarketPlatform.get_markets asks for active, open markets
PolymarketFetched ==
    {[i \in DOMAIN picks |->
        PlatformMarketOf("polymarket", i, picks[i][1],
                         <<Outcome("Yes", picks[i][2][1]), Outcome("No", picks[i][2][2])>>,
                         TRUE, FALSE)] :
        picks \in SeqsOfLen(PolymarketQuestions \X {<<40, 55>>, <<55, 47>>},
                            0, MaxPerPlatform)}

\* PredictItPlatform._parse_market, one contract: no_price = 1.0 - yes_price,
\* active = (status == "Open"), and get_markets keeps every market
PredictItFetched ==
    {[i \in DOMAIN picks |->
        PlatformMarketOf("predictit", i, picks[i][1],
                         <<Outcome("Yes", picks[i][2]), Outcome("No", ONE - picks[i][2])>>,
                         picks[i][3], FALSE)] :
        picks \in SeqsOfLen(PredictItQuestions \X {40, 60} \X BOOLEAN,
                            0, MaxPerPlatform)}

KalshiFetched ==
    {<<>>} \cup
    {<<PlatformMarketOf("kalshi", 1, q, <<Outcome("Yes", 50), Outcome("No", 47)>>,
                        TRUE, FALSE)>> : q \in KalshiQuestions}

Fetches ==
    {[p \in Platforms |->
        CASE p = "polymarket" -> a
          [] p = "kalshi" -> b
          [] p = "predictit" -> c
          [] OTHER -> <<>>] :
        a \in PolymarketFetched, b \in KalshiFetched, c \in PredictItFetched}

NoFetch == [p \in Platforms |-> <<>>]

\* EventMatcher(similarity_threshold=0.45) by default, 0.5 in the scanner
DefaultSimilarityThreshold == Frac(45, 100)
MatchThresholds == {Frac(0, 1), DefaultSimilarityThreshold, SimilarityThreshold}

\* the questions the platforms ask, as token sets, for the matcher
MatchQuestions(p) ==
    CASE p = "polymarket" ->
            {{"will", "trump", "win", "the", "2024", "election"}, {"will", "trump", "win"},
             {"will", "bitcoin", "hit", "100k"}, {"will", "it", "rain"}}
      [] p = "kalshi" -> {{"trump"}, {"bitcoin", "hit", "2025"}}
      [] p = "predictit" -> {{"who", "will", "win"}, {"harris", "2024"}}
      [] OTHER -> {}

MatchQuotes(p) ==
    CASE p = "polymarket" -> <<Outcome("Yes", 40), Outcome("No", 55)>>
      [] p = "kalshi" -> <<Outcome("Yes", 50), Outcome("No", 47)>>
      [] OTHER -> <<Outcome("Yes", 60), Outcome("No", 40)>>

\* what one platform returns to the matcher: at most `most` open markets
MatchFetched(p, most) ==
    {[i \in DOMAIN qs |-> PlatformMarketOf(p, i, qs[i], MatchQuotes(p), TRUE, FALSE)] :
        qs \in SeqsOfLen(MatchQuestions(p), 0, most)}

MatchPlatforms == {"polymarket", "kalshi", "predictit"}
MatchOrders == InjectiveSeqs(MatchPlatforms, 3, 3)

\* questions for _calculate_similarity
SimilarityQuestions ==
    {{"trump", "2024", "election"}, {"trump", "2024", "win"}, {"will", "it", "rain"},
     {"reach", "2029"}, {"hit", "2029"}, {"win"}, {"win", "2025"}, {"bitcoin", "hit"}}

----------------------------------------------------------------------------
(* The state machine: an input is chosen, then one operation is called on it *)

\* questions of the delta scanners: "Will Bitcoin reach / dip to $N K ...?"
LadderAmounts == {100, 105, 150, 200}
LadderVerbs == {"reach", "dip"}
LadderPrices == {10, 30, 31, 50}

DeltaQuestion(words, amount, lead) == [words |-> words, amount |-> amount, lead |-> lead]

BitcoinQuestion(verb, n) == DeltaQuestion({"will", "bitcoin", verb}, <<n, "K">>, "Bitcoin")

RawMarket(id, question, prices, volume) ==
    [id |-> id, question |-> question, outcomes |-> <<"Yes", "No">>,
     outcomePrices |-> prices, volume |-> volume]

\* threshold and YES price of one threshold market
LadderMarkets ==
    {[amount |-> n, yes |-> y] : n \in LadderAmounts, y \in LadderPrices}

\* threshold markets priced at par, of volume 10000: all ask verb, but the
\* first, which asks first
LadderResponse(picks, first, verb) ==
    [i \in DOMAIN picks |->
        RawMarket(i, BitcoinQuestion(IF i = 1 THEN first ELSE verb, picks[i].amount),
                  <<picks[i].yes, ONE - picks[i].yes>>, 10000)]

\* with a threshold, with one too small to count, with one in millions in a
\* question naming two coins, without one (naming a topic of the list, or
\* none), and empty
SpreadQuestions ==
    {BitcoinQuestion("reach", 150),
     BitcoinQuestion("reach", 50),
     DeltaQuestion({"will", "ethereum", "eth", "reach", "before", "bitcoin"},
                   <<150, "M">>, "Ethereum"),
     DeltaQuestion({"will", "trump", "win"}, <<>>, "Trump"),
     DeltaQuestion({"will", "putin", "resign"}, <<>>, "Putin"),
     DeltaQuestion({}, <<>>, "")}
SpreadQuotes == {<<0, 0>>, <<40, 50>>, <<45, 50>>, <<50, 50>>}
SpreadVolumes == {500, 5000, 10000}

SpreadMarkets ==
    {[question |-> q, prices |-> p, volume |-> v] :
        q \in SpreadQuestions, p \in SpreadQuotes, v \in SpreadVolumes}

SpreadResponse(picks) ==
    [i \in DOMAIN picks |->
        RawMarket(i, picks[i].question, picks[i].prices, picks[i].volume)]

\* raw Gamma records: each of outcomes, outcomePrices and question missing or
\* given; price lists of any length up to MaxOutcomes, with unparseable entries
RawOutcomeLists ==
    {Missing, Given(<<>>), Given(<<"Yes">>), Given(<<"Yes", "No">>),
     Given(<<"Home", "Draw", "Away">>)}
RawPriceTokens == {"0.40", "0.55", "n/a"}
RawQuestions == {Missing, Given({"will", "trump", "win", "2024"})}

RawRecord(outcomes, prices, question) ==
    [kind |-> "record", id |-> 1, outcomes |-> outcomes, outcomePrices |-> prices,
     question |-> question]

\* requests: paid, free and other paths, each header absent, empty or set
RequestPaths ==
    {<<"/analyze">>, <<"/markets", "/123">>, <<"/markets", "foo">>, <<"/health">>,
     <<"/">>, <<"/docs", "/oauth2-redirect">>, <<"/account/balance", "/x">>,
     <<"/unknown">>}
HeaderValues == {None, Some(""), Some("5Kq")}

\* app.state has no client, or verify_usdc_transfer raises or returns a result
SolanaClients == {"none", "raises", "invalid", "valid"}

\* parsed model results: any action of the parser, two confidences
ModelNames == <<"claude", "gpt-4", "gemini", "llama", "mistral">>
ModelConfidences == {60, 85}

\* the tasks calling MarketScanner.scan concurrently
ScanTasks == 1..MaxScans

\* the arguments the bot's handlers and the default give to scan
ScanArgs ==
    {[min_prob |-> 95, shuffle |-> TRUE], [min_prob |-> 97, shuffle |-> TRUE],
     [min_prob |-> 95, shuffle |-> FALSE]}

YieldMarket(id, yes, volume, days) ==
    [id |-> id, outcomes |-> <<"Yes", "No">>, outcomePrices |-> <<yes, ONE - yes>>,
     volume |-> volume, endDate |-> days]

\* what the markets API can answer: nothing, markets none of which qualifies,
\* a few markets, and more qualifying markets than a scan shows (two of them
\* of equal APY)
ScanResponses ==
    {<<>>,
     <<YieldMarket(1, 98, 1000, Some(10)), YieldMarket(2, 96, 10000, Some(90)),
       YieldMarket(3, 96, 10000, None), YieldMarket(4, 100, 10000, Some(10)),
       YieldMarket(5, 50, 10000, Some(10))>>,
     <<YieldMarket(1, 3, 10000, Some(30)), YieldMarket(2, 50, 10000, Some(10)),
       YieldMarket(3, 96, 10000, Some(10))>>,
     [i \in 1..(SHOWN + 1) |->
        YieldMarket(10 + i, 95 + (i % 3), 10000,
                    Some(IF i = SHOWN + 1 THEN 10 ELSE 2 * i + 6))]}

IntraIdle ==
    /\ market = NoneResult
    /\ analysis = NotCalled
    /\ opportunities = NotCalled
    /\ returns = NotCalled
    /\ x402_analysis = NotCalled
    /\ x402_opportunities = NotCalled

CrossIdle ==
    /\ arbs = NotCalled
    /\ profitable = NotCalled

MatchIdle ==
    /\ given_markets = <<>>
    /\ similarity_threshold = SimilarityThreshold
    /\ events_matched = NotCalled
    /\ compared = <<>>
    /\ similarity = NotCalled

DeltaIdle ==
    /\ raw_markets = <<>>
    /\ delta_group = <<>>
    /\ delta_found = NotCalled
    /\ delta_opportunities = NotCalled

NoRecord == [kind |-> "idle"]

ParseIdle ==
    /\ data = NoRecord
    /\ normalized = NotCalled

NoRerun == [kind |-> "idle"]

RerunIdle == rerun = NoRerun

NoRequest == [kind |-> "idle"]

PayIdle ==
    /\ request = NoRequest
    /\ solana = "none"
    /\ response = NotCalled

ConsensusIdle ==
    /\ model_results = <<>>
    /\ consensus = NotCalled
    /\ dissent = NotCalled

\* no scan of the Telegram bot is modelled
ScanIdle ==
    /\ scans = <<>>
    /\ cached_opportunities = <<>>

ExtIdle == MatchIdle /\ DeltaIdle /\ ParseIdle /\ RerunIdle /\ PayIdle /\ ConsensusIdle /\ ScanIdle

IntraInit ==
    /\ MIN_PROFIT_THRESHOLD \in Thresholds
    /\ called = "init"
    /\ markets \in Feeds
    /\ IntraIdle
    /\ event = NoEvent
    /\ fetched = NoFetch
    /\ CrossIdle
    /\ ExtIdle

CrossInit ==
    /\ called = "init"
    /\ markets = <<>>
    /\ IntraIdle
    /\ CrossIdle
    /\ ExtIdle
    /\ \/ /\ MIN_PROFIT_THRESHOLD = Frac(1, 2)
          /\ \E ps \in EventOrders : \E outs \in [DOMAIN ps -> OutcomeLists] :
                event = EventWith(ps, outs)
          /\ fetched = NoFetch
       \/ /\ MIN_PROFIT_THRESHOLD \in Thresholds
          /\ event = NoEvent
          /\ fetched \in Fetches

\* ArbitrageScanner._analyze_market(market)
AnalyzeMarketCall ==
    /\ called = "init"
    /\ \E i \in DOMAIN markets :
        /\ market' = markets[i]
        /\ analysis' = AnalyzeMarket(markets[i])
    /\ called' = "_analyze_market"
    /\ UNCHANGED <<MIN_PROFIT_THRESHOLD, extVars,
                   markets, opportunities, returns,
                   x402_analysis, x402_opportunities, crossVars>>

\* ArbitrageOpportunity.calculate_returns(investment)
CalculateReturnsCall ==
    /\ called = "_analyze_market"
    /\ analysis.kind = "opp"
    /\ \E investment \in Investments :
        returns' = CalculateReturns(analysis, investment)
    /\ called' = "calculate_returns"
    /\ UNCHANGED <<MIN_PROFIT_THRESHOLD, extVars,
                   markets, market, analysis, opportunities,
                   x402_analysis, x402_opportunities, crossVars>>

\* ArbitrageScanner.scan()
ScanCall ==
    /\ called = "init"
    /\ opportunities' = Scan(markets, MIN_PROFIT_THRESHOLD)
    /\ called' = "scan"
    /\ UNCHANGED <<MIN_PROFIT_THRESHOLD, extVars,
                   markets, market, analysis, returns,
                   x402_analysis, x402_opportunities, crossVars>>

\* nodo-x402 ArbitrageScanner._analyze_market(market_data)
X402AnalyzeMarketCall ==
    /\ called = "init"
    /\ \E i \in DOMAIN markets :
        /\ market' = markets[i]
        /\ x402_analysis' = X402AnalyzeMarket(markets[i])
    /\ called' = "x402_analyze_market"
    /\ UNCHANGED <<MIN_PROFIT_THRESHOLD, extVars,
                   markets, analysis, opportunities, returns,
                   x402_opportunities, crossVars>>

\* nodo-x402 ArbitrageScanner.scan()
X402ScanCall ==
    /\ called = "init"
    /\ x402_opportunities' = X402Scan(markets)
    /\ called' = "x402_scan"
    /\ UNCHANGED <<MIN_PROFIT_THRESHOLD, extVars,
                   markets, market, analysis, opportunities,
                   returns, x402_analysis, crossVars>>

\* CrossPlatformScanner._find_arbitrage(event)
FindArbitrageCall ==
    /\ called = "init"
    /\ event # NoEvent
    /\ arbs' = Returned(FindArbitrage(event))
    /\ called' = "_find_arbitrage"
    /\ UNCHANGED <<MIN_PROFIT_THRESHOLD, extVars, intraVars,
                   event, fetched, profitable>>

\* CrossPlatformArbitrage.calculate_returns(investment) on the opportunity
\* _find_arbitrage returned
CrossCalculateReturnsCall ==
    /\ called = "_find_arbitrage"
    /\ arbs.kind = "list"
    /\ arbs.list # <<>>
    /\ \E investment \in Investments :
        returns' = CrossCalculateReturns(arbs.list[1], investment)
    /\ called' = "cross_calculate_returns"
    /\ UNCHANGED <<MIN_PROFIT_THRESHOLD, extVars,
                   markets, market, analysis, opportunities,
                   x402_analysis, x402_opportunities, crossVars>>

\* CrossPlatformScanner.scan()
CrossScanCall ==
    /\ called = "init"
    /\ event = NoEvent
    /\ profitable' = Returned(CrossScan(fetched, MIN_PROFIT_THRESHOLD))
    /\ called' = "cross_scan"
    /\ UNCHANGED <<MIN_PROFIT_THRESHOLD, extVars, intraVars,
                   event, fetched, arbs>>

\* EventMatcher.match_markets(markets)
MatchMarketsCall ==
    /\ called = "init"
    /\ compared = <<>>
    /\ events_matched' = Returned(MatchMarkets(given_markets, similarity_threshold))
    /\ called' = "match_markets"
    /\ UNCHANGED <<MIN_PROFIT_THRESHOLD, intraVars, crossVars, deltaVars, parseVars, rerunVars,
                   payVars, consensusVars, scanVars, given_markets,
                   similarity_threshold, compared, similarity>>

\* EventMatcher._calculate_similarity(m1, m2, kw1), kw1 omitted or m1's keywords
CalculateSimilarityCall ==
    /\ called = "init"
    /\ compared # <<>>
    /\ \E kw1 \in {{}, ExtractKeywords(compared[1].question)} :
        similarity' = [kind |-> "score",
                       score |-> CalculateSimilarity(compared[1], compared[2], kw1)]
    /\ called' = "_calculate_similarity"
    /\ UNCHANGED <<MIN_PROFIT_THRESHOLD, intraVars, crossVars, deltaVars, parseVars, rerunVars,
                   payVars, consensusVars, scanVars, given_markets,
                   similarity_threshold, events_matched, compared>>

IntraNext ==
    \/ AnalyzeMarketCall
    \/ CalculateReturnsCall
    \/ ScanCall
    \/ X402AnalyzeMarketCall
    \/ X402ScanCall

CrossNext ==
    \/ FindArbitrageCall
    \/ CrossCalculateReturnsCall
    \/ CrossScanCall

\* the matcher: the markets of up to three platforms in any platform order,
\* or two markets to compare
MatchInit ==
    /\ MIN_PROFIT_THRESHOLD = Frac(1, 2)
    /\ called = "init"
    /\ markets = <<>>
    /\ IntraIdle
    /\ CrossIdle
    /\ event = NoEvent
    /\ events_matched = NotCalled
    /\ similarity = NotCalled
    /\ DeltaIdle
    /\ ParseIdle
    /\ RerunIdle
    /\ PayIdle
    /\ ConsensusIdle
    /\ ScanIdle
    /\ \/ /\ \E a \in MatchFetched("polymarket", MaxPerPlatform),
                b \in MatchFetched("kalshi", MaxPerPlatform),
                c \in MatchFetched("predictit", 1), order \in MatchOrders :
                /\ fetched = [p \in Platforms |->
                                CASE p = "polymarket" -> a
                                  [] p = "kalshi" -> b
                                  [] p = "predictit" -> c
                                  [] OTHER -> <<>>]
                /\ given_markets = AllMarkets(fetched, order)
          /\ similarity_threshold \in MatchThresholds
          /\ compared = <<>>
       \/ /\ fetched = NoFetch
          /\ given_markets = <<>>
          /\ similarity_threshold = DefaultSimilarityThreshold
          /\ \E q1, q2 \in SimilarityQuestions :
                compared = <<PlatformMarketOf("polymarket", 1, q1, MatchQuotes("polymarket"),
                                              TRUE, FALSE),
                             PlatformMarketOf("kalshi", 1, q2, MatchQuotes("kalshi"),
                                              TRUE, FALSE)>>

MatchNext ==
    \/ MatchMarketsCall
    \/ CalculateSimilarityCall
    \/ CrossScanCall

\* DeltaScanner._find_inconsistencies(topic, markets) of the bot
FindInconsistenciesCall ==
    /\ called = "init"
    /\ delta_group # <<>>
    /\ delta_found' = FindInconsistencies(delta_group.topic, delta_group.markets)
    /\ called' = "_find_inconsistencies"
    /\ UNCHANGED <<MIN_PROFIT_THRESHOLD, intraVars, crossVars, matchVars, parseVars,
                   rerunVars, payVars, consensusVars, scanVars,
                   raw_markets, delta_group, delta_opportunities>>

\* DeltaScanner._find_inconsistencies(topic, markets) of nodo-x402
X402FindInconsistenciesCall ==
    /\ called = "init"
    /\ delta_group # <<>>
    /\ delta_found' = X402FindInconsistencies(delta_group.topic, delta_group.markets)
    /\ called' = "x402_find_inconsistencies"
    /\ UNCHANGED <<MIN_PROFIT_THRESHOLD, intraVars, crossVars, matchVars, parseVars,
                   rerunVars, payVars, consensusVars, scanVars,
                   raw_markets, delta_group, delta_opportunities>>

\* DeltaScanner.scan() of the bot, from the API response on
DeltaScanCall ==
    /\ called = "init"
    /\ raw_markets # <<>>
    /\ delta_opportunities' = DeltaScan(raw_markets, FALSE)
    /\ called' = "delta_scan"
    /\ UNCHANGED <<MIN_PROFIT_THRESHOLD, intraVars, crossVars, matchVars, parseVars,
                   rerunVars, payVars, consensusVars, scanVars,
                   raw_markets, delta_group, delta_found>>

\* DeltaScanner.scan() of nodo-x402, from the API response on
X402DeltaScanCall ==
    /\ called = "init"
    /\ raw_markets # <<>>
    /\ delta_opportunities' = DeltaScan(raw_markets, TRUE)
    /\ called' = "x402_delta_scan"
    /\ UNCHANGED <<MIN_PROFIT_THRESHOLD, intraVars, crossVars, matchVars, parseVars,
                   rerunVars, payVars, consensusVars, scanVars,
                   raw_markets, delta_group, delta_found>>

\* the response itself, or one topic group of its parsed markets
DeltaGiven(raws) ==
    \/ raw_markets = raws /\ delta_group = <<>>
    \/ /\ raw_markets = <<>>
       /\ \E t \in Range(TopicsOf(ParseAll(raws, FALSE), <<>>)) :
            delta_group = [topic |-> t, markets |-> InTopic(ParseAll(raws, FALSE), t)]

\* the delta scanners: a response of threshold markets on one topic (of
\* different thresholds if more than two), or a short response of markets
\* with and without a threshold, priced at or below par;
\* either a scan of the response or one topic group of it is examined
DeltaInit ==
    /\ MIN_PROFIT_THRESHOLD = Frac(1, 2)
    /\ called = "init"
    /\ markets = <<>>
    /\ IntraIdle
    /\ CrossIdle
    /\ event = NoEvent
    /\ fetched = NoFetch
    /\ MatchIdle
    /\ ParseIdle
    /\ RerunIdle
    /\ PayIdle
    /\ ConsensusIdle
    /\ ScanIdle
    /\ delta_found = NotCalled
    /\ delta_opportunities = NotCalled
    /\ \/ \E n \in 2..MaxGroup : \E picks \in [1..n -> LadderMarkets] :
            /\ n > 2 => \A i, j \in 1..n : i # j => picks[i].amount # picks[j].amount
            /\ \E first, verb \in LadderVerbs :
                    DeltaGiven(LadderResponse(picks, first, verb))
       \/ \E n \in 1..2 : \E picks \in [1..n -> SpreadMarkets] :
            DeltaGiven(SpreadResponse(picks))

DeltaNext ==
    \/ FindInconsistenciesCall
    \/ X402FindInconsistenciesCall
    \/ DeltaScanCall
    \/ X402DeltaScanCall

\* PolymarketPlatform._parse_market(data)
PlatformParseMarketCall ==
    /\ called = "init"
    /\ data # NoRecord
    /\ normalized' = PlatformParseMarket(data)
    /\ called' = "platform_parse_market"
    /\ UNCHANGED <<MIN_PROFIT_THRESHOLD, intraVars, crossVars, matchVars, deltaVars,
                   rerunVars, payVars, consensusVars, scanVars, data>>

\* PolymarketClient._parse_market(data)
PolymarketClientParseMarketCall ==
    /\ called = "init"
    /\ data # NoRecord
    /\ normalized' = PolymarketClientParseMarket(data)
    /\ called' = "client_parse_market"
    /\ UNCHANGED <<MIN_PROFIT_THRESHOLD, intraVars, crossVars, matchVars, deltaVars,
                   rerunVars, payVars, consensusVars, scanVars, data>>

\* the normalizers: one raw record
ParseInit ==
    /\ MIN_PROFIT_THRESHOLD = Frac(1, 2)
    /\ called = "init"
    /\ markets = <<>>
    /\ IntraIdle
    /\ CrossIdle
    /\ event = NoEvent
    /\ fetched = NoFetch
    /\ MatchIdle
    /\ DeltaIdle
    /\ RerunIdle
    /\ PayIdle
    /\ ConsensusIdle
    /\ ScanIdle
    /\ normalized = NotCalled
    /\ \E outcomes \in RawOutcomeLists, question \in RawQuestions :
        \/ \E prices \in {Missing, Malformed} :
                data = RawRecord(outcomes, prices, question)
        \/ \E n \in 0..MaxOutcomes : \E prices \in [1..n -> RawPriceTokens] :
                data = RawRecord(outcomes, Given(prices), question)

ParseNext ==
    \/ PlatformParseMarketCall
    \/ PolymarketClientParseMarketCall

\* the random offset a run draws (random.randint(0, 50) in DeltaScanner.scan);
\* it is used to fetch the response only
Offsets == {0, 1}

DetectionCalls ==
    {"scan", "x402_scan", "cross_scan", "match_markets", "delta_scan", "x402_delta_scan"}

\* what the first run returned
FirstRun(op) ==
    CASE op = "scan" -> opportunities
      [] op = "x402_scan" -> x402_opportunities
      [] op = "cross_scan" -> profitable
      [] op = "match_markets" -> events_matched
      [] op \in {"delta_scan", "x402_delta_scan"} -> delta_opportunities

\* a faulty variant: the second delta scan works on the response the API
\* returns for the offset drawn in the second run
SecondRunRefetches(op, offset) ==
    CASE op = "scan" -> Scan(markets, MIN_PROFIT_THRESHOLD)
      [] op = "x402_scan" -> X402Scan(markets)
      [] op = "cross_scan" -> Returned(CrossScan(fetched, MIN_PROFIT_THRESHOLD))
      [] op = "match_markets" -> Returned(MatchMarkets(given_markets, similarity_threshold))
      [] op = "delta_scan" ->
            DeltaScan(SubSeq(raw_markets, 1 + offset, Len(raw_markets)), FALSE)
      [] op = "x402_delta_scan" ->
            DeltaScan(SubSeq(raw_markets, 1 + offset, Len(raw_markets)), TRUE)

\* the same detection run a second time on the inputs of the first run, in a
\* run that drew offset
SecondRun(op, offset) ==
    CASE op = "scan" -> Scan(markets, MIN_PROFIT_THRESHOLD)
      [] op = "x402_scan" -> X402Scan(markets)
      [] op = "cross_scan" -> Returned(CrossScan(fetched, MIN_PROFIT_THRESHOLD))
      [] op = "match_markets" -> Returned(MatchMarkets(given_markets, similarity_threshold))
      [] op = "delta_scan" -> DeltaScan(raw_markets, FALSE)
      [] op = "x402_delta_scan" -> DeltaScan(raw_markets, TRUE)

\* matching or a detector is run again on the unchanged inputs
RunAgain ==
    /\ called \in DetectionCalls
    /\ rerun = NoRerun
    /\ \E offset \in Offsets :
        rerun' = [kind |-> "rerun", offset |-> offset, result |-> SecondRun(called, offset)]
    /\ UNCHANGED <<MIN_PROFIT_THRESHOLD, called, intraVars, crossVars, matchVars,
                   deltaVars, parseVars, payVars, consensusVars, scanVars>>

\* X402Middleware.dispatch(request, call_next)
DispatchCall ==
    /\ called = "init"
    /\ request # NoRequest
    /\ response' = Dispatch(request, solana)
    /\ called' = "dispatch"
    /\ UNCHANGED <<MIN_PROFIT_THRESHOLD, intraVars, crossVars, matchVars, deltaVars,
                   parseVars, rerunVars, consensusVars, scanVars,
                   request, solana>>

\* the payment middleware: one request
PayInit ==
    /\ MIN_PROFIT_THRESHOLD = Frac(1, 2)
    /\ called = "init"
    /\ markets = <<>>
    /\ IntraIdle
    /\ CrossIdle
    /\ event = NoEvent
    /\ fetched = NoFetch
    /\ MatchIdle
    /\ DeltaIdle
    /\ ParseIdle
    /\ RerunIdle
    /\ response = NotCalled
    /\ ConsensusIdle
    /\ ScanIdle
    /\ solana \in SolanaClients
    /\ \E path \in RequestPaths, sig \in HeaderValues, tx \in HeaderValues :
        request = [kind |-> "request", path |-> path, payment_signature |-> sig,
                   payment_tx |-> tx]

PayNext == DispatchCall

\* the consensus step of AIOrchestrator.analyze: _build_consensus, then
\* _find_dissent for its action
BuildConsensusCall ==
    /\ called = "init"
    /\ model_results # <<>>
    /\ consensus' = BuildConsensus(model_results)
    /\ dissent' = [kind |-> "dissent",
                   dissent |-> FindDissent(model_results,
                                           BuildConsensus(model_results).action)]
    /\ called' = "_build_consensus"
    /\ UNCHANGED <<MIN_PROFIT_THRESHOLD, intraVars, crossVars, matchVars, deltaVars,
                   parseVars, rerunVars, payVars, scanVars,
                   model_results>>

\* the consensus: the results of one to MaxModels models
ConsensusInit ==
    /\ MIN_PROFIT_THRESHOLD = Frac(1, 2)
    /\ called = "init"
    /\ markets = <<>>
    /\ IntraIdle
    /\ CrossIdle
    /\ event = NoEvent
    /\ fetched = NoFetch
    /\ MatchIdle
    /\ DeltaIdle
    /\ ParseIdle
    /\ RerunIdle
    /\ PayIdle
    /\ ScanIdle
    /\ consensus = NotCalled
    /\ dissent = NotCalled
    /\ \E n \in 1..MaxModels :
        \E actions \in [1..n -> ParsedActions], confidences \in [1..n -> ModelConfidences] :
            model_results = [i \in 1..n |->
                                [model |-> ModelNames[i], action |-> actions[i],
                                 confidence |-> confidences[i]]]

ConsensusNext == BuildConsensusCall

\* a task that has not called scan yet
NotScanning == [pc |-> "idle", args |-> <<>>, result |-> <<>>]

\* MarketScanner.scan(min_prob, shuffle=shuffle) up to `await
\* self.client.get(...)`, where the task yields
ScanStart(t) ==
    /\ called \in {"init", "telegram_scan"}
    /\ t \in DOMAIN scans
    /\ scans[t].pc = "idle"
    /\ \E args \in ScanArgs :
        scans' = [scans EXCEPT ![t] = [pc |-> "fetching", args |-> <<args>>,
                                       result |-> <<>>]]
    /\ called' = "telegram_scan"
    /\ UNCHANGED <<MIN_PROFIT_THRESHOLD, intraVars, crossVars, matchVars, deltaVars,
                   parseVars, rerunVars, payVars, consensusVars, cached_opportunities>>

\* the request or raise_for_status() or response.json() raises: the except
\* branch returns cached_opportunities
FetchFails(t) ==
    /\ t \in DOMAIN scans
    /\ scans[t].pc = "fetching"
    /\ scans' = [scans EXCEPT ![t] = [pc |-> "failed", args |-> <<>>,
                                      result |-> cached_opportunities]]
    /\ UNCHANGED <<MIN_PROFIT_THRESHOLD, called, intraVars, crossVars, matchVars,
                   deltaVars, parseVars, rerunVars, payVars, consensusVars,
                   cached_opportunities>>

\* the response arrives: scan runs to its return without yielding again
FetchReturns(t) ==
    /\ t \in DOMAIN scans
    /\ scans[t].pc = "fetching"
    /\ \E ms \in ScanResponses :
       \E o \in ScanOutcomes(ms, scans[t].args[1].min_prob, scans[t].args[1].shuffle) :
            /\ scans' = [scans EXCEPT ![t] = [pc |-> "returned", args |-> <<>>,
                                              result |-> o.result]]
            /\ cached_opportunities' = o.cached
    /\ UNCHANGED <<MIN_PROFIT_THRESHOLD, called, intraVars, crossVars, matchVars,
                   deltaVars, parseVars, rerunVars, payVars, consensusVars>>

\* the Telegram bot after start-up: an empty cache, no scan called yet
ScanInit ==
    /\ MIN_PROFIT_THRESHOLD = Frac(1, 2)
    /\ called = "init"
    /\ markets = <<>>
    /\ IntraIdle
    /\ CrossIdle
    /\ event = NoEvent
    /\ fetched = NoFetch
    /\ MatchIdle
    /\ DeltaIdle
    /\ ParseIdle
    /\ RerunIdle
    /\ PayIdle
    /\ ConsensusIdle
    /\ scans = [t \in ScanTasks |-> NotScanning]
    /\ cached_opportunities = <<>>

ScanNext ==
    \E t \in ScanTasks :
        \/ ScanStart(t)
        \/ FetchFails(t)
        \/ FetchReturns(t)

Init ==
    \/ IntraInit
    \/ CrossInit
    \/ MatchInit
    \/ DeltaInit
    \/ ParseInit
    \/ PayInit
    \/ ConsensusInit
    \/ ScanInit

Next ==
    \/ IntraNext
    \/ CrossNext
    \/ MatchNext
    \/ DeltaNext
    \/ ParseNext
    \/ PayNext
    \/ ConsensusNext
    \/ ScanNext

\* the intra-platform scanners
SpecIntra == IntraInit /\ [][IntraNext]_vars

\* the cross-platform scanner
SpecCross == CrossInit /\ [][CrossNext]_vars

\* the event matcher, alone and under CrossPlatformScanner.scan
SpecMatch == MatchInit /\ [][MatchNext]_vars

\* the delta scanners
SpecDelta == DeltaInit /\ [][DeltaNext]_vars

\* the Polymarket normalizers
SpecParse == ParseInit /\ [][ParseNext]_vars

\* matching and the detectors, run twice
TwiceNext ==
    \/ ScanCall
    \/ X402ScanCall
    \/ CrossScanCall
    \/ MatchMarketsCall
    \/ DeltaScanCall
    \/ X402DeltaScanCall
    \/ RunAgain

\* the inputs of whole runs: lists of markets, not single markets or events
TwiceInit ==
    \/ IntraInit /\ markets \in ListFeeds
    \/ CrossInit /\ event = NoEvent /\ MIN_PROFIT_THRESHOLD = Frac(1, 2)
    \/ MatchInit /\ compared = <<>> /\ similarity_threshold = SimilarityThreshold
    \/ DeltaInit /\ raw_markets # <<>>

SpecTwice == TwiceInit /\ [][TwiceNext]_vars

\* the payment middleware
SpecPay == PayInit /\ [][PayNext]_vars

\* the consensus of the model results
SpecConsensus == ConsensusInit /\ [][ConsensusNext]_vars

\* concurrent scans of the Telegram bot
SpecScan == ScanInit /\ [][ScanNext]_vars

\* every component, each operation called once
Spec == Init /\ [][Next]_vars

----------------------------------------------------------------------------
(* Properties *)

PriceOf(m, o) ==
    m.outcome_prices[CHOOSE j \in DOMAIN m.outcomes : m.outcomes[j] = o]

Open(m) == m.active /\ ~m.closed

Descending(list) ==
    \A i, j \in DOMAIN list :
        i < j => FGe(list[i].net_profit_pct, list[j].net_profit_pct)

\* C1: a market whose outcome prices sum to 1.0 or more yields no opportunity
\* from either intra-platform _analyze_market, and none of the opportunities a
\* scan returns is for such a market, whatever the market's other fields are.
C1_NoOpportunityAtOrAbovePar ==
    /\ (called = "_analyze_market" /\ SumSeq(market.outcome_prices) >= ONE)
          => analysis = NoneResult
    /\ (called = "x402_analyze_market" /\ SumSeq(market.outcome_prices) >= ONE)
          => x402_analysis = NoneResult
    /\ (called = "scan" /\ opportunities.kind = "list")
          => \A i \in DOMAIN opportunities.list :
                SumSeq(opportunities.list[i].market.outcome_prices) < ONE
    /\ called = "x402_scan"
          => \A i \in DOMAIN x402_opportunities.list :
                SumSeq(x402_opportunities.list[i].market.outcome_prices) < ONE

\* an open market priced exactly at par was analysed and rejected
C1_Witness ==
    /\ called = "_analyze_market"
    /\ Open(market)
    /\ SumSeq(market.outcome_prices) = ONE
    /\ analysis = NoneResult

\* C2: for every active, unresolved binary market with p_yes + p_no < 1,
\* _analyze_market returns an opportunity whose total_cost is p_yes + p_no and
\* whose allocations for Yes and No sum to 1.
C2_BinaryBelowParEmits ==
    (/\ called = "_analyze_market"
     /\ Open(market)
     /\ market.outcomes = <<"Yes", "No">>
     /\ Len(market.outcome_prices) = 2
     /\ market.outcome_prices[1] + market.outcome_prices[2] < ONE)
    => /\ analysis.kind = "opp"
       /\ analysis.total_cost = market.outcome_prices[1] + market.outcome_prices[2]
       /\ FEq(FAdd(analysis.optimal_allocation["Yes"], analysis.optimal_allocation["No"]),
              Frac(1, 1))

\* C3: every opportunity in the list ArbitrageScanner.scan returns, and in the
\* list CrossPlatformScanner.scan returns, has total_cost < 1.0 and
\* net_profit_pct above MIN_PROFIT_THRESHOLD, and each list is in descending
\* order of net_profit_pct.
ScanListOk(list) ==
    /\ \A i \in DOMAIN list :
        /\ list[i].total_cost < ONE
        /\ FGt(list[i].net_profit_pct, MIN_PROFIT_THRESHOLD)
    /\ Descending(list)

C3_ScanListsProfitableAndSorted ==
    /\ (called = "scan" /\ opportunities.kind = "list") => ScanListOk(opportunities.list)
    /\ called = "cross_scan" => ScanListOk(profitable.list)

\* a cross-platform scan returned two opportunities of different profit, the
\* better one from the event that was matched second
C3_Witness ==
    /\ called = "cross_scan"
    /\ Len(profitable.list) = 2
    /\ FGt(profitable.list[1].net_profit_pct, profitable.list[2].net_profit_pct)
    /\ profitable.list[1].event.markets[1].market_id
          > profitable.list[2].event.markets[1].market_id

\* C4: in every opportunity _analyze_market emits, the stake on an outcome,
\* optimal_allocation[o] * total_cost, is the price of one share of o, and in
\* calculate_returns(investment) the shares bought of every outcome,
\* allocations[o] / price[o], equal guaranteed_return (stated as
\* allocations[o] = guaranteed_return * price[o], prices in dollars).
C4_EqualPayoutAllocation ==
    /\ (called \in {"_analyze_market", "calculate_returns"} /\ analysis.kind = "opp")
          => \A o \in DOMAIN analysis.optimal_allocation :
                analysis.optimal_allocation[o][1] * analysis.total_cost
                    = PriceOf(market, o) * analysis.optimal_allocation[o][2]
    /\ called = "calculate_returns"
          => /\ DOMAIN returns.allocations = Range(market.outcomes)
             /\ \A o \in DOMAIN returns.allocations :
                    FEq(Frac(returns.allocations[o][1] * ONE, returns.allocations[o][2]),
                        Frac(returns.guaranteed_return[1] * PriceOf(market, o),
                             returns.guaranteed_return[2]))

\* $100 were split over a Yes at 0.40 and a No at 0.55
C4_Witness ==
    /\ called = "calculate_returns"
    /\ returns.investment = 100
    /\ market.outcome_prices = <<40, 55>>
    /\ FEq(returns.allocations["Yes"], Frac(100 * 40, 95))
    /\ FEq(returns.guaranteed_return, Frac(100 * 100, 95))

\* C5: _analyze_market computes gross_profit_pct = (1 - total_cost) / total_cost
\* * 100 and net_profit_pct = gross_profit_pct - trading_fee * (1 / total_cost)
\* * 100; for Yes = 0.40, No = 0.55 and the 2% fee it emits total_cost 0.95,
\* gross_profit_pct 5.26 and net_profit_pct 3.16 (to two decimals).
C5_FeeOnPayout ==
    (called = "_analyze_market" /\ analysis.kind = "opp")
       => LET T == SumSeq(market.outcome_prices)
              gross == Frac((ONE - T) * 100, T)
              fee_pct == Frac(TRADING_FEE * ONE, T)
          IN  /\ analysis.total_cost = T
              /\ FEq(analysis.gross_profit_pct, gross)
              /\ FEq(analysis.net_profit_pct, FSub(gross, fee_pct))

C5_Example ==
    (called = "_analyze_market" /\ Open(market) /\ market.outcome_prices = <<40, 55>>)
       => /\ analysis.kind = "opp"
          /\ analysis.total_cost = 95
          /\ Round2(analysis.gross_profit_pct) = 526
          /\ Round2(analysis.net_profit_pct) = 316

----------------------------------------------------------------------------
(* Properties of _find_arbitrage *)

PlatformsIn(ev) == {ev.markets[i].platform : i \in DOMAIN ev.markets}
MarketOn(ev, p) == ev.markets[CHOOSE i \in DOMAIN ev.markets : ev.markets[i].platform = p]
IndexOn(ev, p) == CHOOSE i \in DOMAIN ev.markets : ev.markets[i].platform = p

\* the platforms that quote a usable (positive) YES / NO price
YesQuoters(ev) == {p \in PlatformsIn(ev) : Quoted(BestYesPrice(MarketOn(ev, p)))}
NoQuoters(ev) == {p \in PlatformsIn(ev) : Quoted(BestNoPrice(MarketOn(ev, p)))}
YesQuote(ev, p) == BestYesPrice(MarketOn(ev, p))[1]
NoQuote(ev, p) == BestNoPrice(MarketOn(ev, p))[1]

\* the platforms quoting the cheapest positive YES / NO price
CheapestYes(ev) ==
    {p \in YesQuoters(ev) : \A q \in YesQuoters(ev) : YesQuote(ev, p) <= YesQuote(ev, q)}
CheapestNo(ev) ==
    {p \in NoQuoters(ev) : \A q \in NoQuoters(ev) : NoQuote(ev, p) <= NoQuote(ev, q)}

\* among equally cheap platforms, the one first in the event
FirstOf(ev, ps) == CHOOSE p \in ps : \A q \in ps : IndexOn(ev, p) <= IndexOn(ev, q)

\* C6 as stated: when one platform quotes both the cheapest YES price and the
\* cheapest NO price of the event, nothing is emitted for the event.
C6_SamePlatformQuotesBoth ==
    (/\ called = "_find_arbitrage"
     /\ \E p \in PlatformsIn(event) : p \in CheapestYes(event) /\ p \in CheapestNo(event))
    => arbs.list = <<>>

\* C6, amended: when the platform selected for the cheapest YES and the one
\* selected for the cheapest NO (of equally cheap platforms, the first in the
\* event) are the same, nothing is emitted, even if the two prices sum to less
\* than 1; every emitted opportunity has yes_platform # no_platform.
C6_SelectedSamePlatformEmitsNothing ==
    called = "_find_arbitrage"
    => /\ (/\ CheapestYes(event) # {}
           /\ CheapestNo(event) # {}
           /\ FirstOf(event, CheapestYes(event)) = FirstOf(event, CheapestNo(event)))
          => arbs.list = <<>>
       /\ \A i \in DOMAIN arbs.list : arbs.list[i].yes_platform # arbs.list[i].no_platform

\* one platform was cheapest for both sides at a total below 1: nothing emitted
C6_Witness ==
    /\ called = "_find_arbitrage"
    /\ CheapestYes(event) # {}
    /\ CheapestNo(event) # {}
    /\ \E p \in PlatformsIn(event) :
        /\ CheapestYes(event) = {p}
        /\ CheapestNo(event) = {p}
        /\ YesQuote(event, p) + NoQuote(event, p) < ONE
    /\ arbs.list = <<>>

\* the YES / NO prices the platforms of the event report at all (None left out)
YesReported(ev) == {BestYesPrice(ev.markets[i])[1] :
                        i \in {j \in DOMAIN ev.markets : BestYesPrice(ev.markets[j]) # None}}
NoReported(ev) == {BestNoPrice(ev.markets[i])[1] :
                        i \in {j \in DOMAIN ev.markets : BestNoPrice(ev.markets[j]) # None}}

\* C7 as stated: yes_price / no_price of an emitted opportunity are the minimum
\* YES / NO price over all platforms of the event, total_cost is their sum, and
\* at most one opportunity is emitted per event.
C7_MinimumOverAllPlatforms ==
    called = "_find_arbitrage"
    => /\ Len(arbs.list) <= 1
       /\ \A i \in DOMAIN arbs.list :
            /\ arbs.list[i].yes_price = MinOf(YesReported(event))
            /\ arbs.list[i].no_price = MinOf(NoReported(event))
            /\ arbs.list[i].total_cost = arbs.list[i].yes_price + arbs.list[i].no_price

\* C7, amended: yes_price / no_price are the minimum over the platforms that
\* quote a positive YES / NO price, each selected independently, quoted by
\* yes_platform / no_platform; total_cost is their sum; at most one
\* opportunity is emitted per event.
C7_MinimumPositiveQuote ==
    called = "_find_arbitrage"
    => /\ Len(arbs.list) <= 1
       /\ \A i \in DOMAIN arbs.list :
            LET o == arbs.list[i] IN
            /\ o.yes_platform \in CheapestYes(event)
            /\ o.no_platform \in CheapestNo(event)
            /\ o.yes_price = YesQuote(event, o.yes_platform)
            /\ o.no_price = NoQuote(event, o.no_platform)
            /\ \A q \in YesQuoters(event) : o.yes_price <= YesQuote(event, q)
            /\ \A q \in NoQuoters(event) : o.no_price <= NoQuote(event, q)
            /\ o.total_cost = o.yes_price + o.no_price

\* an opportunity was emitted whose YES comes from the second platform of the
\* event, the first one reporting a YES price of 0
C7_Witness ==
    /\ called = "_find_arbitrage"
    /\ Len(arbs.list) = 1
    /\ BestYesPrice(event.markets[1]) = Some(0)
    /\ arbs.list[1].yes_platform = event.markets[2].platform
    /\ arbs.list[1].no_platform = event.markets[1].platform
    /\ arbs.list[1].yes_price > 0

\* the event of the scenario: A quotes YES 0.50 / NO 0.52, B YES 0.55 / NO 0.47
ScenarioEvent(ev) ==
    /\ Len(ev.markets) = 2
    /\ \E a, b \in DOMAIN ev.markets :
        /\ a # b
        /\ ev.markets[a].outcomes = <<Outcome("Yes", 50), Outcome("No", 52)>>
        /\ ev.markets[b].outcomes = <<Outcome("Yes", 55), Outcome("No", 47)>>

ScenarioA(ev) ==
    ev.markets[CHOOSE a \in DOMAIN ev.markets :
                    ev.markets[a].outcomes = <<Outcome("Yes", 50), Outcome("No", 52)>>].platform
ScenarioB(ev) ==
    ev.markets[CHOOSE b \in DOMAIN ev.markets :
                    ev.markets[b].outcomes = <<Outcome("Yes", 55), Outcome("No", 47)>>].platform

ScenarioSelection ==
    /\ Len(arbs.list) = 1
    /\ arbs.list[1].yes_platform = ScenarioA(event)
    /\ arbs.list[1].yes_price = 50
    /\ arbs.list[1].no_platform = ScenarioB(event)
    /\ arbs.list[1].no_price = 47
    /\ arbs.list[1].total_cost = 97

StillTraded(m) == m.active /\ ~m.resolved

C9_NoClosedOrInactiveMarket ==
    /\ (called = "_analyze_market" /\ analysis.kind = "opp") => Open(analysis.market)
    /\ (called = "scan" /\ opportunities.kind = "list")
          => \A i \in DOMAIN opportunities.list : Open(opportunities.list[i].market)
    /\ called = "cross_scan"
          => \A i \in DOMAIN profitable.list :
                LET o == profitable.list[i] IN
                /\ StillTraded(MarketOn(o.event, o.yes_platform))
                /\ StillTraded(MarketOn(o.event, o.no_platform))

\* C10: _find_arbitrage takes YES / NO prices from binary markets only: the
\* markets that supply yes_price and no_price of an emitted opportunity have
\* exactly two outcomes, named Yes and No.
BinaryYesNo(m) ==
    /\ Len(m.outcomes) = 2
    /\ {Lower(m.outcomes[i].name) : i \in DOMAIN m.outcomes} = {"yes", "no"}

C10_PricesFromBinaryMarketsOnly ==
    called = "_find_arbitrage"
    => \A i \in DOMAIN arbs.list :
          /\ BinaryYesNo(MarketOn(event, arbs.list[i].yes_platform))
          /\ BinaryYesNo(MarketOn(event, arbs.list[i].no_platform))

----------------------------------------------------------------------------
(* Properties of the event matcher *)

KeywordsOf(m) == ExtractKeywords(m.question)
PlatformsGiven(ms) == {ms[i].platform : i \in DOMAIN ms}
DistinctPlatforms(ev) ==
    \A i, j \in DOMAIN ev.markets : i # j => ev.markets[i].platform # ev.markets[j].platform

\* C11: every MatchedEvent match_markets returns holds markets of the input,
\* at least two of them, no two from one platform; when the input comes from
\* at most one platform (or is empty) match_markets returns no event, and
\* CrossPlatformScanner.scan returns no opportunity when at most one platform
\* returned markets.
C11_EventsSpanTwoPlatforms ==
    /\ called = "match_markets"
          => /\ \A k \in DOMAIN events_matched.list :
                    LET ev == events_matched.list[k] IN
                    /\ Len(ev.markets) >= 2
                    /\ DistinctPlatforms(ev)
                    /\ Range(ev.markets) \subseteq Range(given_markets)
             /\ Cardinality(PlatformsGiven(given_markets)) <= 1
                    => events_matched.list = <<>>
    /\ (called = "cross_scan" /\ Cardinality({p \in Platforms : fetched[p] # <<>>}) <= 1)
          => profitable.list = <<>>

\* an event over three platforms was returned
C11_Witness ==
    /\ called = "match_markets"
    /\ \E k \in DOMAIN events_matched.list :
            /\ Len(events_matched.list[k].markets) = 3
            /\ DistinctPlatforms(events_matched.list[k])

\* C12 as stated: no two markets of one MatchedEvent have disjoint keyword sets.
C12_NoDisjointPairInEvent ==
    called = "match_markets"
    => \A k \in DOMAIN events_matched.list :
          LET ev == events_matched.list[k] IN
          \A i, j \in DOMAIN ev.markets :
              KeywordsOf(ev.markets[i]) \cap KeywordsOf(ev.markets[j]) # {}

\* C12, amended: two markets with disjoint keyword sets score 0 and are never
\* matched to each other, whatever the threshold: every market of an event
\* shares a keyword with the event's first market, the one of the main
\* platform, to which it was matched (so no market with an empty keyword set
\* is in an event).  Two markets matched to the same main market need not
\* share a keyword with each other.
C12_DisjointFromMainNeverMatched ==
    /\ called = "match_markets"
          => \A k \in DOMAIN events_matched.list :
                LET ev == events_matched.list[k] IN
                /\ ev.markets[1].platform = given_markets[1].platform
                /\ \A j \in DOMAIN ev.markets :
                      KeywordsOf(ev.markets[1]) \cap KeywordsOf(ev.markets[j]) # {}
    /\ (/\ called = "_calculate_similarity"
         /\ KeywordsOf(compared[1]) \cap KeywordsOf(compared[2]) = {})
          => similarity.score = Frac(0, 1)

\* with threshold 0, markets of two platforms without a common keyword, one of
\* them without any keyword, were given and nothing was matched
C12_Witness ==
    /\ called = "match_markets"
    /\ similarity_threshold = Frac(0, 1)
    /\ Cardinality(PlatformsGiven(given_markets)) >= 2
    /\ \E i \in DOMAIN given_markets : KeywordsOf(given_markets[i]) = {}
    /\ \A i, j \in DOMAIN given_markets :
          given_markets[i].platform # given_markets[j].platform
             => KeywordsOf(given_markets[i]) \cap KeywordsOf(given_markets[j]) = {}
    /\ events_matched.list = <<>>

\* C13: for non-disjoint keyword sets K1, K2 the score is
\* min(1.0, |K1 n K2| / |K1 u K2| + 0.2 if a common keyword is a named entity
\* + 0.15 if a common keyword is a year 2024..2028); it is the same with the
\* two markets exchanged, lies in (0, 1], and for {trump, 2024, election} and
\* {trump, 2024, win} it is 0.85, which reaches both default thresholds.
C13_SimilarityFormula ==
    called = "_calculate_similarity"
    => LET K1 == KeywordsOf(compared[1])
           K2 == KeywordsOf(compared[2])
           both == K1 \cap K2
           either == K1 \cup K2
           bonus == (IF both \cap ENTITIES # {} THEN 20 ELSE 0)
                    + (IF both \cap {"2024", "2025", "2026", "2027", "2028"} # {}
                       THEN 15 ELSE 0)
           raw == Frac(100 * Cardinality(both) + bonus * Cardinality(either),
                       100 * Cardinality(either))
       IN  /\ both # {}
              => /\ FEq(similarity.score, IF FGt(raw, Frac(1, 1)) THEN Frac(1, 1) ELSE raw)
                 /\ FGt(similarity.score, Frac(0, 1))
                 /\ FLe(similarity.score, Frac(1, 1))
           /\ FEq(similarity.score, CalculateSimilarity(compared[2], compared[1], {}))
           /\ ({K1, K2} = {{"trump", "2024", "election"}, {"trump", "2024", "win"}})
              => /\ FEq(similarity.score, Frac(85, 100))
                 /\ FGe(similarity.score, DefaultSimilarityThreshold)
                 /\ FGe(similarity.score, SimilarityThreshold)

\* the two example markets were compared and scored 0.85
C13_Witness ==
    /\ called = "_calculate_similarity"
    /\ KeywordsOf(compared[1]) = {"trump", "2024", "election"}
    /\ KeywordsOf(compared[2]) = {"trump", "2024", "win"}
    /\ FEq(similarity.score, Frac(85, 100))

----------------------------------------------------------------------------
(* Properties of the delta scanners *)

FindCalled == called \in {"_find_inconsistencies", "x402_find_inconsistencies"}

\* the group is three markets asking whether the topic reaches three different
\* thresholds
ThreeReachMarkets ==
    /\ delta_group # <<>>
    /\ Len(delta_group.markets) = 3
    /\ \A i \in 1..3 :
        /\ delta_group.markets[i].direction \in {"reach", "above"}
        /\ delta_group.markets[i].threshold # None
    /\ \A i, j \in 1..3 :
        i # j => delta_group.markets[i].threshold # delta_group.markets[j].threshold

\* the market of the k-th lowest threshold
ByRank(k) ==
    delta_group.markets[CHOOSE i \in 1..3 :
        Cardinality({j \in 1..3 : delta_group.markets[j].threshold[1]
                                    < delta_group.markets[i].threshold[1]}) = k - 1]

YesLadder == <<ByRank(1).yes_price, ByRank(2).yes_price, ByRank(3).yes_price>>

\* the reach violations among the opportunities found, as <<event_a, event_b>>
ReachViolations ==
    {<<delta_found.list[i].event_a, delta_found.list[i].event_b>> :
        i \in {j \in DOMAIN delta_found.list :
                    delta_found.list[j].confidence = REACH_CONFIDENCE}}

NumReachViolations ==
    Cardinality({j \in DOMAIN delta_found.list :
                    delta_found.list[j].confidence = REACH_CONFIDENCE})

\* the higher threshold of adjacent ranks k, k + 1 is at least 1.1 times the lower
WellApart(k) == 10 * ByRank(k + 1).threshold[1] >= 11 * ByRank(k).threshold[1]

\* C14 as stated: for three reach markets of one topic with thresholds
\* T1 < T2 < T3, YES prices (0.50, 0.30, 0.10) give no reach violation and YES
\* prices (0.10, 0.30, 0.50) give exactly two, one for each adjacent pair.
C14_ReachLadder ==
    (FindCalled /\ ThreeReachMarkets)
    => /\ YesLadder = <<50, 30, 10>> => NumReachViolations = 0
       /\ YesLadder = <<10, 30, 50>>
            => /\ NumReachViolations = 2
               /\ ReachViolations = {<<ByRank(2), ByRank(1)>>, <<ByRank(3), ByRank(2)>>}

\* C14, amended: YES prices (0.50, 0.30, 0.10) give no reach violation; YES
\* prices (0.10, 0.30, 0.50) give one reach violation for each adjacent pair
\* whose higher threshold is at least 1.1 times the lower one, and none for a
\* closer pair: exactly two when T2 >= 1.1 * T1 and T3 >= 1.1 * T2.
C14_ReachLadderWellApart ==
    (FindCalled /\ ThreeReachMarkets)
    => /\ YesLadder = <<50, 30, 10>> => NumReachViolations = 0
       /\ YesLadder = <<10, 30, 50>>
            => /\ ReachViolations = {<<ByRank(k + 1), ByRank(k)>> : k \in {h \in 1..2 : WellApart(h)}}
               /\ NumReachViolations = Cardinality({h \in 1..2 : WellApart(h)})
               /\ (WellApart(1) /\ WellApart(2)) => NumReachViolations = 2

\* a rising ladder over thresholds well apart, given out of threshold order,
\* produced two reach violations
C14_Witness ==
    /\ called = "_find_inconsistencies"
    /\ ThreeReachMarkets
    /\ YesLadder = <<10, 30, 50>>
    /\ WellApart(1) /\ WellApart(2)
    /\ delta_group.markets[1].threshold[1] > delta_group.markets[2].threshold[1]
    /\ NumReachViolations = 2

\* the markets of the group that the same-market rule is stated for
SpreadCandidates ==
    {i \in DOMAIN delta_group.markets :
        LET m == delta_group.markets[i] IN
        /\ HasThreshold(m)
        /\ m.yes_price + m.no_price < SPREAD_TOTAL
        /\ m.volume > SPREAD_VOLUME}

\* the same-market opportunities found
SpreadsFound ==
    {i \in DOMAIN delta_found.list :
        /\ delta_found.list[i].confidence = SPREAD_CONFIDENCE
        /\ delta_found.list[i].event_a = delta_found.list[i].event_b}

\* C15: in one topic group, _find_inconsistencies emits a same-market
\* opportunity (event_a is event_b, confidence 95, profit_potential =
\* (1 - total) / total * 100 with total = yes_price + no_price) for exactly the
\* threshold-bearing markets with total < 0.95 and volume > 5000, whether or
\* not a reach or dip rule fired for them.
C15_SpreadForThresholdMarkets ==
    FindCalled
    => /\ delta_found.kind = "list"
       /\ \A i \in SpreadCandidates :
            \E j \in SpreadsFound :
                /\ delta_found.list[j].event_a = delta_group.markets[i]
                /\ LET total == delta_group.markets[i].yes_price
                                    + delta_group.markets[i].no_price
                   IN  delta_found.list[j].profit_potential[1] * total
                          = (ONE - total) * 100 * delta_found.list[j].profit_potential[2]
       /\ \A j \in SpreadsFound :
            \E i \in SpreadCandidates :
                delta_found.list[j].event_a = delta_group.markets[i]
       /\ Cardinality(SpreadsFound) = Cardinality(SpreadCandidates)

----------------------------------------------------------------------------
(* Properties of all detectors *)

\* C16: for any well-typed market whose prices lie in [0, 1], markets whose
\* prices are all 0 included, no call of the intra-platform detectors, the
\* cross-platform detector or the delta detectors raises ZeroDivisionError or
\* lets another exception escape: the caller receives opportunities or nothing.
C16_NoExceptionEscapes ==
    /\ analysis.kind # "raise"
    /\ opportunities.kind # "raise"
    /\ x402_analysis.kind # "raise"
    /\ x402_opportunities.kind # "raise"
    /\ arbs.kind # "raise"
    /\ profitable.kind # "raise"
    /\ delta_found.kind # "raise"
    /\ delta_opportunities.kind # "raise"

----------------------------------------------------------------------------
(* Properties of the Polymarket normalizers *)

ParseCalled == called \in {"platform_parse_market", "client_parse_market"}

LacksPrices == data.outcomePrices = Missing
UnparseablePrices ==
    \/ data.outcomePrices = Malformed
    \/ /\ data.outcomePrices.kind = "given"
       /\ \E i \in DOMAIN data.outcomePrices.value : ~IsFloat(data.outcomePrices.value[i])
FewerThanTwoOutcomes == data.outcomes.kind = "given" /\ Len(data.outcomes.value) < 2
FewerThanTwoPrices == data.outcomePrices.kind = "given" /\ Len(data.outcomePrices.value) < 2
MissingQuestion == data.question = Missing

----------------------------------------------------------------------------
(* Properties of the payment middleware *)

CarriesProof == Truthy(request.payment_signature) \/ Truthy(request.payment_tx)
PaidRequest == ~IsFreePath(request.path) /\ IsPaidPath(request.path)

\* C19: dispatch passes a request for a paid endpoint on to its handler if and
\* only if the request carries a payment proof header (X-Payment-Signature or
\* X-Payment-Tx) and the verification of that proof returns valid; with no
\* proof header the response is 402 PAYMENT_REQUIRED, with a proof that fails
\* verification 402 PAYMENT_INVALID; requests to free endpoints always pass.
C19_PaidIffVerifiedProof ==
    called = "dispatch"
    => /\ PaidRequest
            => /\ response = PassedOn <=> (CarriesProof /\ solana = "valid")
               /\ ~CarriesProof => response = PaymentResponse("PAYMENT_REQUIRED")
               /\ (CarriesProof /\ solana # "valid")
                    => response = PaymentResponse("PAYMENT_INVALID")
       /\ IsFreePath(request.path) => response = PassedOn

----------------------------------------------------------------------------
(* Properties of the consensus *)

Unanimous(a) == \A i \in DOMAIN model_results : model_results[i].action = a

\* C20: when every model result carries the same action a (BUY_YES, BUY_NO,
\* SKIP or HOLD, the actions the response parser can produce), the consensus
\* has action a and agreement n/n, and no dissent is reported.
C20_UnanimousConsensus ==
    called = "_build_consensus"
    => \A a \in ParsedActions :
        Unanimous(a)
        => /\ consensus.action = a
           /\ consensus.agreement = <<Len(model_results), Len(model_results)>>
           /\ dissent.dissent = None

----------------------------------------------------------------------------
(* Properties of the matcher's choice of candidates *)

MatchCalled == called = "match_markets"
MainPlatform == given_markets[1].platform
OtherPlatforms == PlatformsGiven(given_markets) \ {MainPlatform}

\* the markets consumed by the events before the k-th
ConsumedBefore(k) ==
    UNION {{MarketKey(events_matched.list[j].markets[i]) :
                i \in DOMAIN events_matched.list[j].markets} : j \in 1..(k - 1)}

\* the positions in the input of platform p's markets not consumed before
\* the k-th event
Unconsumed(k, p) ==
    {i \in DOMAIN given_markets :
        /\ given_markets[i].platform = p
        /\ MarketKey(given_markets[i]) \notin ConsumedBefore(k)}

\* the similarity of the k-th event's primary market to the market at i
ScoreTo(k, i) ==
    LET main == events_matched.list[k].markets[1]
    IN  CalculateSimilarity(main, given_markets[i], KeywordsOf(main))

\* the positions in the input of the k-th event's markets of platform p
TakenFrom(k, p) ==
    {i \in DOMAIN given_markets :
        /\ given_markets[i].platform = p
        /\ \E j \in DOMAIN events_matched.list[k].markets :
              MarketKey(events_matched.list[k].markets[j]) = MarketKey(given_markets[i])}

\* C21: for each primary-platform market that yields an event and each other
\* platform, the market taken from that platform reaches the similarity
\* threshold and has the maximum similarity to the primary market over that
\* platform's markets not yet consumed, the earliest in input order on ties;
\* when no unconsumed market of the platform reaches the threshold the
\* platform is absent from the event.
C21_BestUnconsumedCandidate ==
    MatchCalled
    => \A k \in DOMAIN events_matched.list : \A p \in OtherPlatforms :
          /\ \A t \in TakenFrom(k, p) :
                /\ t \in Unconsumed(k, p)
                /\ FGe(ScoreTo(k, t), similarity_threshold)
                /\ \A i \in Unconsumed(k, p) :
                      /\ FLe(ScoreTo(k, i), ScoreTo(k, t))
                      /\ i < t => FLt(ScoreTo(k, i), ScoreTo(k, t))
          /\ Cardinality(TakenFrom(k, p)) <= 1
          /\ (\A i \in Unconsumed(k, p) : FLt(ScoreTo(k, i), similarity_threshold))
                => TakenFrom(k, p) = {}

\* an event took the second of two unconsumed markets of a platform, the first
\* reaching the threshold with a lower score
C21_Witness ==
    /\ MatchCalled
    /\ \E k \in DOMAIN events_matched.list : \E p \in OtherPlatforms :
          \E t \in TakenFrom(k, p) : \E i \in Unconsumed(k, p) :
              /\ i < t
              /\ FGe(ScoreTo(k, i), similarity_threshold)
              /\ FLt(ScoreTo(k, i), ScoreTo(k, t))

\* the position in the input of the k-th event's primary market
PrimaryAt(k) ==
    CHOOSE i \in DOMAIN given_markets :
        MarketKey(given_markets[i]) = MarketKey(events_matched.list[k].markets[1])

\* the positions in the input of the k-th event's markets
InEvent(k) ==
    {i \in DOMAIN given_markets :
        \E j \in DOMAIN events_matched.list[k].markets :
            MarketKey(events_matched.list[k].markets[j]) = MarketKey(given_markets[i])}

\* the input with the primary platform's markets in reverse order
ReversePrimary ==
    LET mains == OnPlatform(given_markets, MainPlatform)
        rest == SelectSeq(given_markets, LAMBDA m : m.platform # MainPlatform)
    IN  [i \in DOMAIN mains |-> mains[Len(mains) + 1 - i]] \o rest

\* the (primary, candidate) pairs of a list of events
Pairings(events) ==
    UNION {{<<MarketKey(events[k].markets[1]), MarketKey(events[k].markets[j])>> :
                j \in 2..Len(events[k].markets)} : k \in DOMAIN events}

\* C22: match_markets is one greedy pass over the first platform's markets in
\* input order: the events come in the order of their primary markets, and a
\* candidate consumed by an earlier primary market is in no later event, also
\* when its similarity to a later primary market is strictly higher.
C22_GreedySinglePass ==
    MatchCalled
    => /\ \A k \in DOMAIN events_matched.list :
             /\ given_markets[PrimaryAt(k)].platform = MainPlatform
             /\ \A j \in 1..(k - 1) : PrimaryAt(j) < PrimaryAt(k)
       /\ \A k \in DOMAIN events_matched.list : \A c \in InEvent(k) \ {PrimaryAt(k)} :
             \A later \in DOMAIN given_markets :
                 (/\ given_markets[later].platform = MainPlatform
                  /\ later > PrimaryAt(k))
                 => \A j \in DOMAIN events_matched.list :
                       PrimaryAt(j) = later => c \notin InEvent(j)

\* an input on which the greedy result is not the best assignment and depends
\* on the order of the primary markets: the only candidate went to the earlier
\* primary market although the later one, left without an event, is strictly
\* more similar to it, and with the primary markets reversed the later one
\* gets it
C22_Witness ==
    /\ MatchCalled
    /\ \E k \in DOMAIN events_matched.list : \E c \in InEvent(k) \ {PrimaryAt(k)} :
       \E later \in DOMAIN given_markets :
          /\ InEvent(k) = {PrimaryAt(k), c}
          /\ given_markets[later].platform = MainPlatform
          /\ later > PrimaryAt(k)
          /\ \A j \in DOMAIN events_matched.list : later \notin InEvent(j)
          /\ FGt(CalculateSimilarity(given_markets[later], given_markets[c],
                                     KeywordsOf(given_markets[later])),
                 ScoreTo(k, c))
          /\ <<MarketKey(given_markets[later]), MarketKey(given_markets[c])>>
                \in Pairings(MatchMarkets(ReversePrimary, similarity_threshold))
          /\ Pairings(MatchMarkets(ReversePrimary, similarity_threshold))
                # Pairings(events_matched.list)

\* C29: over the whole result of one match_markets call, every market
\* (platform and market_id) is in at most one MatchedEvent, every event holds
\* exactly one market of the first (primary) platform, and every event's
\* confidence is at least the similarity threshold and at most 1.0.
C29_EventsDisjointAndConfident ==
    MatchCalled
    => \A k \in DOMAIN events_matched.list :
          LET ev == events_matched.list[k] IN
          /\ \A j \in DOMAIN events_matched.list : \A a \in DOMAIN ev.markets :
             \A b \in DOMAIN events_matched.list[j].markets :
                 MarketKey(ev.markets[a]) = MarketKey(events_matched.list[j].markets[b])
                    => (j = k /\ a = b)
          /\ Cardinality({a \in DOMAIN ev.markets :
                              ev.markets[a].platform = MainPlatform}) = 1
          /\ FGe(ev.confidence, similarity_threshold)
          /\ FLe(ev.confidence, Frac(1, 1))

\* two events were returned under a positive threshold, one of them over
\* three platforms
C29_Witness ==
    /\ MatchCalled
    /\ FGt(similarity_threshold, Frac(0, 1))
    /\ Len(events_matched.list) >= 2
    /\ \E k \in DOMAIN events_matched.list : Len(events_matched.list[k].markets) = 3

----------------------------------------------------------------------------
(* Properties of the delta rules of the bot *)

BotFindCalled == called = "_find_inconsistencies" /\ delta_found.kind = "list"

\* the reach and the dip markets of the group, ascending by threshold
ReachSorted == SortByThreshold(SelectSeq(delta_group.markets, IsReach))
DipSorted == SortByThreshold(SelectSeq(delta_group.markets, IsDip))

\* an opportunity over (a, b) of this confidence was found
Emitted(a, b, confidence) ==
    \E i \in DOMAIN delta_found.list :
        /\ delta_found.list[i].event_a = a
        /\ delta_found.list[i].event_b = b
        /\ delta_found.list[i].confidence = confidence

\* C23: the delta rules are not mutually exclusive: an adjacent reach pair
\* with higher.yes_price > lower.yes_price, lower.yes_price > 0.001,
\* |higher.yes_price - lower.yes_price| < 0.02 and lower.yes_price > 0.05
\* yields both a confidence-90 violation and a confidence-60 near-miss.
C23_ViolationAndNearMissBoth ==
    BotFindCalled
    => \A k \in 1..(Len(ReachSorted) - 1) :
          LET lower == ReachSorted[k]
              higher == ReachSorted[k + 1]
          IN  (/\ higher.yes_price > lower.yes_price
               /\ 10 * lower.yes_price > 1
               /\ higher.yes_price - lower.yes_price < 2
               /\ lower.yes_price > 5)
              => /\ Emitted(higher, lower, REACH_CONFIDENCE)
                 /\ Emitted(higher, lower, NEAR_CONFIDENCE)

\* C24: the dip rule mirrors the reach rule: over the dip markets ascending by
\* threshold, an adjacent pair yields a confidence-85 violation exactly when
\* its higher threshold is at least 1.1 times the lower one and
\* lower.yes_price > higher.yes_price.
C24_DipMirrorsReach ==
    BotFindCalled
    => \A k \in 1..(Len(DipSorted) - 1) :
          LET lower == DipSorted[k]
              higher == DipSorted[k + 1]
          IN  Emitted(lower, higher, DIP_CONFIDENCE)
              <=> (/\ 10 * higher.threshold[1] >= 11 * lower.threshold[1]
                   /\ lower.yes_price > higher.yes_price)

\* C25: every reach or dip violation has profit_potential =
\* min((overpriced.yes_price - underpriced.yes_price)
\*     / max(underpriced.yes_price, 0.01) * 100, 500), which lies in (0, 500],
\* and its two events are distinct markets of the same topic and direction
\* class with different thresholds.
C25_ViolationProfitAndEvents ==
    BotFindCalled
    => \A i \in DOMAIN delta_found.list :
          LET opp == delta_found.list[i]
              over == opp.event_a
              under == opp.event_b
          IN  opp.confidence \in {REACH_CONFIDENCE, DIP_CONFIDENCE}
              => /\ FEq(opp.profit_potential,
                        FMin(Frac((over.yes_price - under.yes_price) * 100,
                                  FloorPrice(under.yes_price)),
                             Frac(500, 1)))
                 /\ FGt(opp.profit_potential, Frac(0, 1))
                 /\ FLe(opp.profit_potential, Frac(500, 1))
                 /\ over.id # under.id
                 /\ over.topic = under.topic /\ over.topic = opp.topic
                 /\ (IsReach(over) /\ IsReach(under)) \/ (IsDip(over) /\ IsDip(under))
                 /\ over.threshold # under.threshold

----------------------------------------------------------------------------
(* Properties of the threshold and topic extraction *)

\* C26: a question naming its target as $N K gets threshold N * 1000 and one
\* naming it as $N M gets N * 1000000 (so that e.g. "dip to $50K" has
\* threshold 50000 and takes part in the reach/dip rules); one threshold per
\* question.
C26_ScaledThreshold ==
    (called = "_find_inconsistencies" /\ delta_group # <<>>)
    => \A i \in DOMAIN delta_group.markets :
          LET m == delta_group.markets[i]
              amount == m.question.amount
          IN  /\ (amount # <<>> /\ amount[2] = "K") => m.threshold = Some(amount[1] * 1000)
              /\ (amount # <<>> /\ amount[2] = "M")
                    => m.threshold = Some(amount[1] * 1000000)

\* the keyword categories of the bot's and of the nodo-x402 service's
\* _extract_topic, in the order they are declared
TopicCategories ==
    <<[tag |-> "BTC", keywords |-> {"bitcoin", "btc"}],
      [tag |-> "ETH", keywords |-> {"ethereum", "eth"}],
      [tag |-> "SOL", keywords |-> {"solana", "sol"}],
      [tag |-> "XRP", keywords |-> {"xrp", "ripple"}],
      [tag |-> "DOGE", keywords |-> {"dogecoin", "doge"}],
      [tag |-> "TRUMP", keywords |-> {"trump"}],
      [tag |-> "BIDEN", keywords |-> {"biden"}],
      [tag |-> "HARRIS", keywords |-> {"harris"}],
      [tag |-> "MUSK", keywords |-> {"musk", "elon"}],
      [tag |-> "FED_RATE", keywords |-> {"fed"}],
      [tag |-> "INFLATION", keywords |-> {"inflation", "cpi"}],
      [tag |-> "GDP", keywords |-> {"gdp"}],
      [tag |-> "TESLA", keywords |-> {"tesla", "tsla"}],
      [tag |-> "SP500", keywords |-> {"sp500", "spy"}],
      [tag |-> "NASDAQ", keywords |-> {"nasdaq", "qqq"}],
      [tag |-> "NVIDIA", keywords |-> {"nvidia", "nvda"}]>>
X402TopicCategories ==
    SelectSeq(TopicCategories,
              LAMBDA c : c.tag \in {"BTC", "ETH", "SOL", "TRUMP", "FED_RATE"})

\* the tag of the category with the most keyword hits, the first declared on
\* ties, OTHER without a hit
MostHits(question, categories) ==
    LET hits(i) == Cardinality(question.words \cap categories[i].keywords)
        best == CHOOSE i \in DOMAIN categories :
                    \A j \in DOMAIN categories :
                        hits(j) < hits(i) \/ (hits(j) = hits(i) /\ i <= j)
    IN  IF hits(best) = 0 THEN "OTHER" ELSE categories[best].tag

\* C27: the topic tag of a question is the keyword category with the highest
\* number of keyword hits, ties going to the category declared first, and
\* OTHER for a question that hits no keyword.
C27_TopicByMostHits ==
    /\ (called = "_find_inconsistencies" /\ delta_group # <<>>)
          => \A i \in DOMAIN delta_group.markets :
                delta_group.markets[i].topic
                    = MostHits(delta_group.markets[i].question, TopicCategories)
    /\ (called \in {"delta_scan", "x402_delta_scan"} /\ delta_opportunities.kind = "list")
          => \A i \in DOMAIN delta_opportunities.list :
                delta_opportunities.list[i].event_a.topic
                    = MostHits(delta_opportunities.list[i].event_a.question,
                               IF called = "delta_scan" THEN TopicCategories
                               ELSE X402TopicCategories)

----------------------------------------------------------------------------
(* Properties of calculate_returns *)

RECURSIVE Gcd(_, _)
Gcd(a, b) == IF b = 0 THEN a ELSE Gcd(b, a % b)

\* a fraction in lowest terms
Lowest(f) ==
    LET g == Gcd(IF f[1] < 0 THEN -f[1] ELSE f[1], f[2])
    IN  <<f[1] \div g, f[2] \div g>>

\* C30: for every emitted opportunity and every investment > 0, the roi_pct
\* calculate_returns(investment) returns equals the opportunity's stored
\* net_profit_pct and is the same for every investment, for
\* ArbitrageOpportunity (fee on the payout at the trading fee) and for
\* CrossPlatformArbitrage (fee on the payout at the average of the two
\* platform fees).
C30_RoiIsNetProfitPct ==
    /\ (called = "calculate_returns" /\ returns.investment > 0)
          => /\ Lowest(returns.roi_pct) = Lowest(analysis.net_profit_pct)
             /\ Lowest(returns.fee)
                   = Lowest(Frac(returns.guaranteed_return[1] * TRADING_FEE,
                                 returns.guaranteed_return[2] * ONE))
             /\ \A other \in Investments \ {0} :
                   Lowest(CalculateReturns(analysis, other).roi_pct)
                      = Lowest(returns.roi_pct)
    /\ (called = "cross_calculate_returns" /\ returns.investment > 0)
          => /\ Lowest(returns.roi_pct) = Lowest(arbs.list[1].net_profit_pct)
             /\ Lowest(returns.fee)
                   = Lowest(Frac(returns.gross_return[1]
                                    * (arbs.list[1].yes_platform_fee
                                       + arbs.list[1].no_platform_fee),
                                 returns.gross_return[2] * 2 * ONE))
             /\ \A other \in Investments \ {0} :
                   Lowest(CrossCalculateReturns(arbs.list[1], other).roi_pct)
                      = Lowest(returns.roi_pct)

\* 100 dollars were put into a cross-platform opportunity between two
\* platforms of different fees, with a positive return on investment
C30_Witness ==
    /\ called = "cross_calculate_returns"
    /\ returns.investment = 100
    /\ arbs.list[1].yes_platform_fee # arbs.list[1].no_platform_fee
    /\ FGt(returns.roi_pct, Frac(0, 1))
    /\ Lowest(returns.roi_pct) = Lowest(arbs.list[1].net_profit_pct)

----------------------------------------------------------------------------
(* Properties of the Telegram bot's cache under concurrent scans *)

ApyDescending(list) ==
    \A i \in 1..(Len(list) - 1) : list[i].apy >= list[i + 1].apy

\* the cache is empty or the whole list one finished successful scan
\* returned, of at most 7 entries in descending order of APY
CacheIsOneScansResult ==
    /\ Len(cached_opportunities) <= 7
    /\ ApyDescending(cached_opportunities)
    /\ \/ cached_opportunities = <<>>
       \/ \E t \in DOMAIN scans :
            /\ scans[t].pc = "returned"
            /\ scans[t].result = cached_opportunities

\* a step in which the fetch of a scan fails returns the current cache and
\* leaves it unchanged
FailedScanKeepsCache ==
    \A t \in DOMAIN scans :
        (scans[t].pc = "fetching" /\ scans'[t].pc = "failed")
        => /\ scans'[t].result = cached_opportunities
           /\ cached_opportunities' = cached_opportunities

\* C28: under any interleaving of concurrent MarketScanner.scan calls, which
\* yield only at the HTTP fetch, cached_opportunities is empty or equals the
\* complete returned list of one finished successful scan (at most 7 entries,
\* sorted by APY descending), never a mixture of two scans; a scan whose fetch
\* fails returns the current cache and leaves it unchanged.
C28_CacheNeverMixed == []CacheIsOneScansResult /\ [][FailedScanKeepsCache]_vars

\* two scans overlapped: the second began before the first had its response,
\* the first returned seven of eight opportunities and filled the cache, then
\* the fetch of the second failed and it returned those seven
C28_Witness ==
    /\ scans # <<>>
    /\ \E t, u \in DOMAIN scans :
        /\ t # u
        /\ scans[t].pc = "returned"
        /\ Len(scans[t].result) = 7
        /\ scans[u].pc = "failed"
        /\ scans[u].result = scans[t].result
        /\ cached_opportunities = scans[t].result

====
